---------------------------- MODULE Spec2Model ----------------------------
(***************************************************************************)
(* A state-machine model of the polygon area/volume engine of              *)
(* csp-measurement-tools (src/src/PolygonTool.cpp, the Voronoi beach line  *)
(* and Plugin.cpp).  The module holds several specifications over one set *)
(* of variables; each specification drives one part of the engine and     *)
(* leaves the variables of the other parts untouched:                      *)
(*                                                                         *)
(*   SpecVol     calculateAreaAndVolume and the display of its results     *)
(*   SpecRefine  the refinement loop of updateCalculation                  *)
(*   SpecMesh    the edge-recovery loop of createMesh                      *)
(*   Spec        the event handlers of PolygonTool                         *)
(*   SpecMeshFlow  the loop of createMesh with many intersections          *)
(*   SpecBeach   the beach line of one sweep (Beachline, Arc)              *)
(*   SpecBeachOps  any sequence of insertArcFor and removeArc              *)
(*   SpecPlugin  the tool selection and the tool list of the plugin        *)
(*   SpecHeights the midpoint test of refineMesh                           *)
(*   SpecBox     the bounding box of updateLineVertices                    *)
(***************************************************************************)
EXTENDS Integers, Sequences, FiniteSets, TLC

VARIABLES
    \* ---- calculateAreaAndVolume / display (SpecVol) ----
    volPc,          \* "calc": accumulating, "shown": values passed to the GUI
    cavIt,          \* sub-triangles accumulated in this pass
    area,           \* double area      (updateCalculation local, by reference)
    posVolume,      \* double posVolume (pvol)
    negVolume,      \* double negVolume (nvol)
    guiArea,        \* last argument of setArea, NotShown before the first call
    guiVolume,      \* last arguments of setVolume
    cleanArea,      \* history: area of the sub-triangles without a NaN corner
    nanVertex,      \* history: the oracle returned NaN at a sub-triangle corner
    \* ---- refinement loop of updateCalculation (SpecRefine) ----
    refPc,          \* "loop": at the while test, "pass": in the for loop, "done"
    fine,           \* bool fine
    attempt,        \* int attempt
    pointCount,     \* int pointCount
    triangleCount,  \* int triangleCount
    triIx,          \* position of the for loop in triangles (1-based)
    mCornersFine,   \* per interior triangle the mAddr of its sites, in order
    inside,         \* per triangle of the Delaunay mesh the result of checkPoint
    mMaxAttempt,    \* setting
    mMaxPoints,     \* setting
    sleekAdded,     \* history: sites added by checkSleekness in this pass
    refineAdded,    \* history: sites added by refineMesh in this pass
    \* ---- edge-recovery loop of createMesh (SpecMesh) ----
    meshPc,         \* "loop": at the while test, "done": createMesh returned
    it,             \* int it
    edgesOK,        \* bool edgesOK
    mCorners,       \* std::vector<Site> mCorners
    absent,         \* history: the i for which the last sweep has no edge
                    \* between the addresses of mCorners[i] and its successor
    warned,         \* the warning of lines 525-528 was logged
    spliced,        \* history: the last iteration inserted corners
    \* ---- the event handlers of PolygonTool (Spec) ----
    mPoints,        \* the anchor positions of the marks, in order
    pHeightScale,   \* GraphicsEngine::pHeightScale
    pAddPointMode,  \* MultiPointTool::pAddPointMode
    mShowMesh,      \* bool mShowMesh
    mSampledPositions, \* the sampled line, one entry per line segment
    mTriangulation, \* the mesh segments for display
    mIndexCount2,   \* size_t mIndexCount2
    ran,            \* history: how the last handler ended
    lastRun,        \* history: the marks of the last updateCalculation
    events,         \* history: the number of events handled
    \* ---- the beach line of one sweep (SpecBeach) ----
    bArcs,          \* the Arc objects allocated so far, by allocation number
    bBreaks,        \* the Breakpoint objects allocated so far
    bIndex,         \* mBreakPoints: the breakpoints in the index
    mRoot,          \* Arc* mRoot, 0 for NULL
    bCircles,       \* the Circle events created so far
    mTriangulationEdges, \* the edges passed to addTriangulationEdge
    mSiteEvents,    \* the sites not yet inserted, in sweep order
    bOp,            \* history: the branch the last operation took
    bArc,           \* history: brokenArcLeft / the arc removed
    \* ---- the plugin (SpecPlugin) ----
    mNextTool,      \* std::string mNextTool
    mTools,         \* std::list of the tools: number, kind, pShouldDelete
    created,        \* history: the number of tools created so far
    updIt,          \* the iterator of Plugin::update, 0 outside update
    toolsAtStart,   \* history: mTools at the start of the last update
    updated,        \* history: the tools update() was called on, in order
    pLast,          \* history: the last event
    \* ---- the splice of createMesh with many intersections (SpecMeshFlow) ----
    cornersBefore,  \* history: mCorners at the start of the last iteration
    hits,           \* history: the confirmed intersections of the last
                    \* iteration, in the order findIntersection returned them
    addCorners,     \* std::vector<Site> addCorners of the last iteration
    \* ---- the midpoint test of refineMesh (SpecHeights) ----
    hPc,            \* "call": refineMesh is entered, "done": the test is made
    h1,             \* double h1
    h2,             \* double h2
    hAvg,           \* double hAvg
    mHeightDiff,    \* float mHeightDiff
    midInserted,    \* the midpoint was emplaced in mCornersFine[count]
    \* ---- the bounding box of updateLineVertices (SpecBox) ----
    bbPc,           \* "loop": in the while loop, "stored": behind line 1022
    lngLats,        \* pLngLat of the marks of mPoints, in order
    currMark,       \* position of currMark in mPoints (1-based)
    boundingBox,    \* glm::dvec4 boundingBox
    mBoundingBox    \* glm::dvec4 mBoundingBox

volVars == <<volPc, cavIt, area, posVolume, negVolume, guiArea, guiVolume,
             cleanArea, nanVertex>>

refVars == <<refPc, fine, attempt, pointCount, triangleCount, triIx,
             mCornersFine, inside, mMaxAttempt, mMaxPoints, sleekAdded,
             refineAdded>>

meshVars == <<meshPc, it, edgesOK, mCorners, absent, warned, spliced>>

toolVars == <<mPoints, pHeightScale, pAddPointMode, mShowMesh,
              mSampledPositions, mTriangulation, mIndexCount2, ran, lastRun,
              events>>

beachVars == <<bArcs, bBreaks, bIndex, mRoot, bCircles, mTriangulationEdges,
               mSiteEvents, bOp, bArc>>

plugVars == <<mNextTool, mTools, created, updIt, toolsAtStart, updated, pLast>>

flowVars == <<cornersBefore, hits, addCorners>>

heightVars == <<hPc, h1, h2, hAvg, mHeightDiff, midInserted>>

boxVars == <<bbPc, lngLats, currMark, boundingBox, mBoundingBox>>

fnVars == <<heightVars, boxVars>>

restVars == <<beachVars, plugVars, flowVars, fnVars>>

vars == <<volVars, refVars, meshVars, toolVars, restVars>>

-----------------------------------------------------------------------------
(* Bounds of the model *)

MaxH == 1           \* heights over the least-squares plane lie in -MaxH..MaxH
MaxBase == 1        \* triangle areas lie in 0..MaxBase
MaxTris == 2        \* sub-triangles accumulated per pass
MaxMeshTris == 2    \* triangles of the Delaunay mesh of the polygon
MaxSites == 13      \* sites per interior triangle
MaxRefine == 2      \* sites added by refineMesh per interior triangle and pass
MaxAttempts == 3    \* the setting mMaxAttempt lies in 0..MaxAttempts
MaxX == 2           \* projected corners lie on the grid (0..MaxX) x (1..MaxY)
MaxY == 2
MaxPolygon == 4     \* corners of the polygon handed to createMesh
MaxMarks == 3       \* marks of the polygon tool
MaxEvents == 4      \* events handled by the polygon tool

(* Constants of the program *)

MaxIterations == 5  \* createMesh: while (!edgesOK && it < 5)

-----------------------------------------------------------------------------
(* IEEE doubles: a number or NaN.  Every operation with a NaN operand      *)
(* yields NaN and every comparison with a NaN operand is false.            *)

NaN == [nan |-> TRUE, v |-> 0]
F(n) == [nan |-> FALSE, v |-> n]
IsNaN(a) == a.nan
FAdd(a, b) == IF a.nan \/ b.nan THEN NaN ELSE F(a.v + b.v)
FMul(a, b) == IF a.nan \/ b.nan THEN NaN ELSE F(a.v * b.v)
FGt(a, b) == ~a.nan /\ ~b.nan /\ a.v > b.v
FLt(a, b) == ~a.nan /\ ~b.nan /\ a.v < b.v

\* the GUI item before the first setArea / setVolume
NotShown == [nan |-> TRUE, v |-> -1]

HlVals == {F(n) : n \in -MaxH..MaxH} \cup {NaN}
BaseVals == {F(n) : n \in 0..MaxBase}
AreaVals == {F(n) : n \in 1..MaxBase}

-----------------------------------------------------------------------------
(* calculateAreaAndVolume, one iteration of its loop over the triangles.   *)
(* Volumes are kept in twelfths (x / 3 is 4 x, x / 4 is 3 x) so that the   *)
(* model stays in the integers.                                            *)
(*   hl1, hl2, hl3 : heights of the corners over the least-squares plane   *)
(*   f1, f2, f3    : the 32-sample search found a sign change on the edge  *)
(*                   p1-p2, p1-p3, p2-p3                                   *)
(*   ba1, ba2      : base areas of the corner triangle / the quadrilateral *)
(*   baT           : base area of the whole triangle                       *)

Thirds(a) == FMul(F(4), a)
Quarters(a) == FMul(F(3), a)

\* lines 753: all corners strictly on the same side of the plane
SameSide(hl1, hl2, hl3) ==
    \/ FGt(hl1, F(0)) /\ FGt(hl2, F(0)) /\ FGt(hl3, F(0))
    \/ FLt(hl1, F(0)) /\ FLt(hl2, F(0)) /\ FLt(hl3, F(0))

\* lines 788, 819, 838: the guards of the three sampling loops
Opposite(ha, hb) == FGt(ha, F(0)) # FGt(hb, F(0))

\* lines 755-764 and 904-911: one prism over the whole triangle
WholePrismBad(acc, baT, hl1, hl2, hl3) ==
    LET volume == Thirds(FMul(baT, FAdd(hl1, FAdd(hl2, hl3))))
    IN  IF FGt(volume, F(0))
        THEN [pvol |-> acc.pvol, nvol |-> FAdd(acc.nvol, volume)]
        ELSE [pvol |-> FAdd(acc.pvol, volume), nvol |-> acc.nvol]

WholePrism(acc, baT, hl1, hl2, hl3) ==
    LET volume == Thirds(FMul(baT, FAdd(hl1, FAdd(hl2, hl3))))
    IN  IF FGt(volume, F(0))
        THEN [pvol |-> FAdd(acc.pvol, volume), nvol |-> acc.nvol]
        ELSE [pvol |-> acc.pvol, nvol |-> FAdd(acc.nvol, volume)]

\* lines 868-875, 881-887, 893-899: corner triangle ho, quadrilateral ha, hb
SplitPrism(acc, ba1, ba2, ho, ha, hb) ==
    IF FGt(ho, F(0))
    THEN [pvol |-> FAdd(acc.pvol, Thirds(FMul(ba1, ho))),
          nvol |-> FAdd(acc.nvol, Quarters(FMul(ba2, FAdd(ha, hb))))]
    ELSE [pvol |-> FAdd(acc.pvol, Quarters(FMul(ba2, FAdd(ha, hb)))),
          nvol |-> FAdd(acc.nvol, Thirds(FMul(ba1, ho)))]

\* lines 748-913: the volume part of one loop iteration
VolumeOfTriangle(acc, hl1, hl2, hl3, f1, f2, f3, ba1, ba2, baT) ==
    IF SameSide(hl1, hl2, hl3)
    THEN WholePrism(acc, baT, hl1, hl2, hl3)
    ELSE LET b1 == Opposite(hl1, hl2) /\ f1
             b2 == Opposite(hl1, hl3) /\ f2
             b3 == Opposite(hl2, hl3) /\ f3
         IN  IF b1 /\ b2 /\ ~b3 THEN SplitPrism(acc, ba1, ba2, hl1, hl2, hl3)
             ELSE IF b1 /\ ~b2 /\ b3 THEN SplitPrism(acc, ba1, ba2, hl2, hl1, hl3)
             ELSE IF ~b1 /\ b2 /\ b3 THEN SplitPrism(acc, ba1, ba2, hl3, hl1, hl2)
             ELSE WholePrism(acc, baT, hl1, hl2, hl3)

\* lines 1283-1288: the value handed to setArea
ShownAreaKeep(a) == a
ShownArea(a) == IF ~IsNaN(a) THEN a ELSE F(0)

\* lines 1290-1298: the values handed to setVolume
ShownVolume(p, n) ==
    IF ~IsNaN(p) /\ ~IsNaN(n) THEN <<p, n>>
    ELSE IF ~IsNaN(n) THEN <<F(0), n>>
    ELSE IF ~IsNaN(p) THEN <<p, F(0)>>
    ELSE <<F(0), F(0)>>

-----------------------------------------------------------------------------
(* SpecVol: one refinement pass accumulates sub-triangles and displays.    *)

VolStart ==
    /\ volPc = "calc"
    /\ cavIt = 0
    /\ area = F(0)
    /\ posVolume = F(0)
    /\ negVolume = F(0)
    /\ guiArea = NotShown
    /\ guiVolume = <<NotShown, NotShown>>
    /\ cleanArea = F(0)
    /\ nanVertex = FALSE

\* the refinement loop is not running
RefIdle ==
    /\ refPc = "done"
    /\ fine = FALSE
    /\ attempt = 0
    /\ pointCount = 0
    /\ triangleCount = 0
    /\ triIx = 1
    /\ mCornersFine = << >>
    /\ inside = << >>
    /\ mMaxAttempt = 0
    /\ mMaxPoints = 0
    /\ sleekAdded = 0
    /\ refineAdded = 0

\* createMesh is not running
MeshIdle ==
    /\ meshPc = "done"
    /\ it = 0
    /\ edgesOK = FALSE
    /\ mCorners = << >>
    /\ absent = {}
    /\ warned = FALSE
    /\ spliced = FALSE

\* no tool is handling an event
ToolIdle ==
    /\ mPoints = << >>
    /\ pHeightScale = 1
    /\ pAddPointMode = TRUE
    /\ mShowMesh = FALSE
    /\ mSampledPositions = << >>
    /\ mTriangulation = << >>
    /\ mIndexCount2 = 0
    /\ ran = "none"
    /\ lastRun = << >>
    /\ events = 0

\* Beachline::Beachline, lines 14-18, and no sweep running
BeachIdle ==
    /\ bArcs = << >>
    /\ bBreaks = << >>
    /\ bIndex = {}
    /\ mRoot = 0
    /\ bCircles = << >>
    /\ mTriangulationEdges = << >>
    /\ mSiteEvents = << >>
    /\ bOp = "none"
    /\ bArc = 0

\* Plugin.hpp (part_005) lines 56-58: no tool selected, no tool registered
PlugIdle ==
    /\ mNextTool = "none"
    /\ mTools = << >>
    /\ created = 0
    /\ updIt = 0
    /\ toolsAtStart = << >>
    /\ updated = << >>
    /\ pLast = "none"

\* createMesh, line 344: addCorners is empty at the start of an iteration
FlowIdle ==
    /\ cornersBefore = << >>
    /\ hits = << >>
    /\ addCorners = << >>

\* refineMesh is not running; PolygonTool.hpp line 133
HeightIdle ==
    /\ hPc = "done"
    /\ h1 = 0
    /\ h2 = 0
    /\ hAvg = 0
    /\ mHeightDiff = [n |-> 501, d |-> 500]
    /\ midInserted = FALSE

\* updateLineVertices is not running; PolygonTool.hpp line 121
BoxIdle ==
    /\ bbPc = "stored"
    /\ lngLats = << >>
    /\ currMark = 0
    /\ boundingBox = <<0, 0, 0, 0>>
    /\ mBoundingBox = <<0, 0, 0, 0>>

FnIdle == HeightIdle /\ BoxIdle

RestIdle == BeachIdle /\ PlugIdle /\ FlowIdle /\ FnIdle

VolInit == VolStart /\ RefIdle /\ MeshIdle /\ ToolIdle /\ RestIdle

\* lines 784-855: the sampling of an edge can find a sign change only if
\* the loop runs, that is if its guard holds
Found(ha, hb) == IF Opposite(ha, hb) THEN BOOLEAN ELSE {FALSE}

\* lines 858, 877, 889: one of the three split branches is taken
IsSplit(hl1, hl2, hl3, f1, f2, f3) ==
    /\ ~SameSide(hl1, hl2, hl3)
    /\ (f1 /\ f2 /\ ~f3) \/ (f1 /\ ~f2 /\ f3) \/ (~f1 /\ f2 /\ f3)

\* lines 861-866: the split areas come from the interpolated crossing
\* points, which are NaN when a sampled height was
SplitVals(split) == IF split THEN BaseVals \cup {NaN} ELSE {F(0)}

\* PolygonTool::calculateAreaAndVolume, lines 704-914, for one triangle.
\* The oracle decides the heights, the sampling and so the split areas.
CalcTriangle ==
    /\ volPc = "calc"
    /\ cavIt < MaxTris
    /\ \E hl1, hl2, hl3 \in HlVals, ta \in AreaVals :
       \E f1 \in Found(hl1, hl2), f2 \in Found(hl1, hl3), f3 \in Found(hl2, hl3) :
       \E ba1, ba2 \in SplitVals(IsSplit(hl1, hl2, hl3, f1, f2, f3)) :
       \E baT \in IF IsSplit(hl1, hl2, hl3, f1, f2, f3) THEN {F(0)} ELSE BaseVals :
         LET vNaN == IsNaN(hl1) \/ IsNaN(hl2) \/ IsNaN(hl3)
             \* line 732: the lifted corners r1, r2, r3 carry the heights
             triArea == IF vNaN THEN NaN ELSE ta
             acc == [pvol |-> posVolume, nvol |-> negVolume]
             new == VolumeOfTriangle(acc, hl1, hl2, hl3, f1, f2, f3, ba1, ba2, baT)
         IN  /\ area' = FAdd(area, triArea)
             /\ posVolume' = new.pvol
             /\ negVolume' = new.nvol
             /\ nanVertex' = (nanVertex \/ vNaN)
             /\ cleanArea' = IF vNaN THEN cleanArea ELSE FAdd(cleanArea, triArea)
    /\ cavIt' = cavIt + 1
    /\ UNCHANGED <<volPc, guiArea, guiVolume>>
    /\ UNCHANGED <<refVars, meshVars, toolVars, restVars>>

\* PolygonTool::updateCalculation, lines 1283-1298: the values are displayed
DisplayValues ==
    /\ volPc = "calc"
    /\ guiArea' = ShownArea(area)
    /\ guiVolume' = ShownVolume(posVolume, negVolume)
    /\ volPc' = "shown"
    /\ UNCHANGED <<cavIt, area, posVolume, negVolume, cleanArea, nanVertex>>
    /\ UNCHANGED <<refVars, meshVars, toolVars, restVars>>

VolNext == CalcTriangle \/ DisplayValues

SpecVol == VolInit /\ [][VolNext]_vars

-----------------------------------------------------------------------------
(* SpecRefine: the refinement loop of updateCalculation, lines 1203-1301.  *)
(* The sub-sweeps and the height oracle decide how many sites a triangle   *)
(* receives; the model draws these numbers.                                *)

Min(a, b) == IF a < b THEN a ELSE b

\* the point budgets tried: none, one reached inside a pass, one never reached
PointBudgets == {0, MaxSites \div 2, 2 * MaxSites * MaxMeshTris}

\* k sites that all get the size of the list in front of the first
AppendSitesSameAddr(sites, k) == sites \o [i \in 1..k |-> Len(sites)]

\* emplace_back(x, y, mCornersFine[count].size()), k times
RECURSIVE AppendSites(_, _)
AppendSites(sites, k) ==
    IF k = 0 THEN sites ELSE AppendSites(Append(sites, Len(sites)), k - 1)

\* checkSleekness, lines 542-609: at most one midpoint per edge of the
\* sub-triangulation, which has at most 3 n - 6 edges (3 for n = 3)
SleekAdds(n) == 0..Min(3 * n - 6, MaxSites - n)

\* checkSleekness, lines 612-615; size is the size after the insertions:
\* addedPoints.size() > 1.5 * (size - addedPoints.size())
TooManyAdded(k, size) == 2 * k > 3 * (size - k)

\* updateCalculation, line 1268: the gate in front of refineMesh
RefineGateOpen(refine, pc, att) == ~refine
RefineGate(refine, pc, att) ==
    ~refine /\ pc < mMaxPoints /\ att < mMaxAttempt

\* refineMesh, lines 665-694, over all edges of the triangle
RefineAdds(n) == 0..Min(MaxRefine, MaxSites - n)

\* updateCalculation, line 1217: the loop condition
LoopGuardNoFine(f, att, pc) == att < mMaxAttempt /\ pc < mMaxPoints
LoopGuard(f, att, pc) == ~f /\ att < mMaxAttempt /\ pc < mMaxPoints

\* sequences of checkPoint results for the triangles of the mesh
InsideSeqs == UNION {[1..n -> BOOLEAN] : n \in 0..MaxMeshTris}

\* lines 1061-1063 and 1203-1214: the state in front of the loop
RefStart ==
    /\ refPc = "loop"
    /\ fine = FALSE
    /\ attempt = 0
    /\ pointCount = 0
    /\ triangleCount = 0
    /\ triIx = 1
    /\ mCornersFine = << >>
    /\ inside \in InsideSeqs
    /\ mMaxAttempt \in 0..MaxAttempts
    /\ mMaxPoints \in PointBudgets
    /\ sleekAdded = 0
    /\ refineAdded = 0

\* the integrator is not running
VolIdle ==
    /\ volPc = "shown"
    /\ cavIt = 0
    /\ area = F(0)
    /\ posVolume = F(0)
    /\ negVolume = F(0)
    /\ guiArea = NotShown
    /\ guiVolume = <<NotShown, NotShown>>
    /\ cleanArea = F(0)
    /\ nanVertex = FALSE

RefInit == RefStart /\ VolIdle /\ MeshIdle /\ ToolIdle /\ RestIdle

\* lines 1217-1227: the loop condition holds, a pass starts
StartPass ==
    /\ refPc = "loop"
    /\ LoopGuard(fine, attempt, pointCount)
    /\ attempt' = attempt + 1
    /\ fine' = TRUE
    /\ triangleCount' = 0
    /\ pointCount' = 0
    /\ triIx' = 1
    /\ sleekAdded' = 0
    /\ refineAdded' = 0
    /\ refPc' = "pass"
    /\ UNCHANGED <<mCornersFine, inside, mMaxAttempt, mMaxPoints>>
    /\ UNCHANGED <<volVars, meshVars, toolVars, restVars>>

\* lines 1230-1281: one iteration of the loop over the mesh triangles
ProcessTriangle ==
    /\ refPc = "pass"
    /\ triIx <= Len(inside)
    /\ IF inside[triIx]
       THEN LET \* lines 1242-1250
                seeded == IF attempt = 1
                          THEN Append(mCornersFine, <<0, 1, 2>>)
                          ELSE mCornersFine
                tc == triangleCount + 1
            IN  \E k \in SleekAdds(Len(seeded[tc])) :
                  LET afterSleek == AppendSites(seeded[tc], k)
                      \* line 1253
                      refine == TooManyAdded(k, Len(afterSleek))
                      gate == RefineGate(refine, pointCount, attempt)
                  IN  \E r \in IF gate THEN RefineAdds(Len(afterSleek)) ELSE {0} :
                        /\ mCornersFine' =
                              [seeded EXCEPT ![tc] = AppendSites(afterSleek, r)]
                        \* refineMesh, lines 667, 691: fine = 0 with each site
                        /\ fine' = (fine /\ r = 0)
                        \* lines 1278-1279
                        /\ pointCount' = pointCount + Len(afterSleek) + r
                        /\ triangleCount' = triangleCount + 1
                        /\ sleekAdded' = sleekAdded + k
                        /\ refineAdded' = refineAdded + r
       ELSE UNCHANGED <<mCornersFine, fine, pointCount, triangleCount,
                        sleekAdded, refineAdded>>
    /\ triIx' = triIx + 1
    /\ UNCHANGED <<refPc, attempt, inside, mMaxAttempt, mMaxPoints>>
    /\ UNCHANGED <<volVars, meshVars, toolVars, restVars>>

\* lines 1281-1299: the for loop is over, the values are displayed and
\* control returns to the loop condition
EndPass ==
    /\ refPc = "pass"
    /\ triIx > Len(inside)
    /\ refPc' = "loop"
    /\ UNCHANGED <<fine, attempt, pointCount, triangleCount, triIx,
                   mCornersFine, inside, mMaxAttempt, mMaxPoints, sleekAdded,
                   refineAdded>>
    /\ UNCHANGED <<volVars, meshVars, toolVars, restVars>>

\* lines 1217, 1299-1301: the loop condition fails, the loop is left
ExitLoop ==
    /\ refPc = "loop"
    /\ ~LoopGuard(fine, attempt, pointCount)
    /\ refPc' = "done"
    /\ UNCHANGED <<fine, attempt, pointCount, triangleCount, triIx,
                   mCornersFine, inside, mMaxAttempt, mMaxPoints, sleekAdded,
                   refineAdded>>
    /\ UNCHANGED <<volVars, meshVars, toolVars, restVars>>

RefNext == StartPass \/ ProcessTriangle \/ EndPass \/ ExitLoop

SpecRefine == RefInit /\ [][RefNext]_vars

\* the loop is a sequential program: it takes its next step
SpecRefineLive == RefInit /\ [][RefNext]_vars /\ WF_vars(RefNext)

-----------------------------------------------------------------------------
(* Exact arithmetic for the chart coordinates: a double is modelled as the *)
(* rational it stands for, [n |-> numerator, d |-> denominator > 0],       *)
(* reduced.                                                                *)

Abs(i) == IF i < 0 THEN -i ELSE i

\* A value that is used more than once is drawn from a singleton set here
\* and below: it is then computed once.
RECURSIVE Gcd(_, _)
Gcd(a, b) ==
    IF b = 0 THEN a
    ELSE CHOOSE g \in {Gcd(b0, r) : b0 \in {b}, r \in {a % b}} : TRUE

R(n, d) ==
    CHOOSE r \in {[n |-> sg * (n0 \div g), d |-> sg * (d0 \div g)] :
                     n0 \in {n}, d0 \in {d}, g \in {Gcd(Abs(n), Abs(d))},
                     sg \in {IF d < 0 THEN -1 ELSE 1}} : TRUE

RInt(i) == [n |-> i, d |-> 1]
RSub(a, b) == R(a.n * b.d - b.n * a.d, a.d * b.d)
RAdd(a, b) == R(a.n * b.d + b.n * a.d, a.d * b.d)
RMul(a, b) == R(a.n * b.n, a.d * b.d)
RDiv(a, b) == R(a.n * b.d, a.d * b.n)
RGt(a, b) == a.n * b.d > b.n * a.d
RLt(a, b) == a.n * b.d < b.n * a.d
RAbs(a) == [n |-> Abs(a.n), d |-> a.d]
RZero(a) == a.n = 0

\* Site(x, y, addr)
Site(x, y, a) == [x |-> x, y |-> y, a |-> a]

\* Site(0, 0, 0), the value of a site variable that was never assigned
ZeroSite == Site(RInt(0), RInt(0), 0)

\* findIntersection, line 247: double safety = 0.01
Safety == R(1, 100)

\* findIntersection, lines 269-276: the point is outside the safety band of s
OutsideBand(s, ix, iy) ==
    \/ RGt(RAbs(RDiv(RSub(s.x, ix), s.x)), Safety)
    \/ RGt(RAbs(RDiv(RSub(s.y, iy), s.y)), Safety)

\* findIntersection, lines 262-276: the intersection lies on both edges and
\* outside the safety band of the four end points
OnBothEdges(s1, s2, s3, s4, ix, iy) ==
    IF /\ RGt(s1.x, ix) # RGt(s2.x, ix)
       /\ RGt(s3.x, ix) # RGt(s4.x, ix)
       /\ RGt(s1.y, iy) # RGt(s2.y, iy)
       /\ RGt(s3.y, iy) # RGt(s4.y, iy)
       /\ OutsideBand(s1, ix, iy)
       /\ OutsideBand(s2, ix, iy)
       /\ OutsideBand(s3, ix, iy)
       /\ OutsideBand(s4, ix, iy)
    THEN [ok |-> TRUE, x |-> ix, y |-> iy]
    ELSE [ok |-> FALSE]

\* findIntersection, lines 253-260: the lines y = m1 x + c1 and y = m2 x + c2
LinesCross(s1, s2, s3, s4, m1, m2, c1, c2) ==
    IF m1 = m2
    THEN [ok |-> FALSE]
    ELSE CHOOSE r \in
           UNION {{OnBothEdges(s1, s2, s3, s4, ix, iy) :
                      iy \in {RAdd(RMul(m1, ix), c1)}} :
                  ix \in {RDiv(RSub(c2, c1), RSub(m1, m2))}} : TRUE

\* PolygonTool::findIntersection, lines 236-286.  A vertical edge has an
\* infinite (or NaN) slope, the intersection is then NaN and every
\* comparison with it is false.
FindIntersection(s1, s2, s3, s4) ==
    IF \/ RZero(s1.x) \/ RZero(s2.x) \/ RZero(s3.x) \/ RZero(s4.x)
       \/ RZero(s1.y) \/ RZero(s2.y) \/ RZero(s3.y) \/ RZero(s4.y)
    THEN [ok |-> FALSE]
    ELSE IF s2.x = s1.x \/ s4.x = s3.x
    THEN [ok |-> FALSE]
    ELSE CHOOSE r \in
           UNION {{LinesCross(s1, s2, s3, s4, m1, m2, c1, c2) :
                      c1 \in {RSub(s1.y, RMul(m1, s1.x))},
                      c2 \in {RSub(s3.y, RMul(m2, s3.x))}} :
                  m1 \in {RDiv(RSub(s2.y, s1.y), RSub(s2.x, s1.x))},
                  m2 \in {RDiv(RSub(s4.y, s3.y), RSub(s4.x, s3.x))}} : TRUE

-----------------------------------------------------------------------------
(* SpecMesh: the edge-recovery loop of PolygonTool::createMesh.            *)

MaxOf(S) == CHOOSE m \in S : \A k \in S : k =< m
MinOf(S) == CHOOSE m \in S : \A k \in S : m =< k

\* The sweep (VoronoiGenerator::parse, getTriangulation) as the specification
\* describes it: sites with identical coordinates are represented once and
\* the result is an undirected list of the Delaunay edges of the sites, in
\* which every site occurs when there are at least two of them.
SamePoint(c1, c2) == c1.x = c2.x /\ c1.y = c2.y

KeptSets(corners) ==
    {K \in SUBSET (1..Len(corners)) :
        \A i \in 1..Len(corners) :
            Cardinality({k \in K : SamePoint(corners[k], corners[i])}) = 1}

\* The sites on the integer lattice: the coordinates times a common
\* denominator (the Delaunay edges do not depend on the scale).
RECURSIVE LcmDen(_, _)
LcmDen(corners, i) ==
    IF i > Len(corners) THEN 1
    ELSE CHOOSE r \in {(lx * corners[i].y.d) \div Gcd(lx, corners[i].y.d) :
                          lx \in {(l * corners[i].x.d) \div Gcd(l, corners[i].x.d) :
                                     l \in {LcmDen(corners, i + 1)}}} : TRUE

Lattice(corners) ==
    CHOOSE pts \in {[i \in 1..Len(corners) |->
                        <<corners[i].x.n * (l \div corners[i].x.d),
                          corners[i].y.n * (l \div corners[i].y.d)>>] :
                    l \in {LcmDen(corners, 1)}} : TRUE

\* The circles through a and b have their centres at m + t p, m the middle
\* of a b and p the normal of a b.  The site c is not inside such a circle
\* iff  t Side(a, b, c) =< Power(a, b, c)  (both scaled by constants).
Side(a, b, c) ==
    (a[2] - b[2]) * (2 * c[1] - a[1] - b[1])
        + (b[1] - a[1]) * (2 * c[2] - a[2] - b[2])

Power(a, b, c) ==
    (2 * c[1] - a[1] - b[1]) * (2 * c[1] - a[1] - b[1])
        + (2 * c[2] - a[2] - b[2]) * (2 * c[2] - a[2] - b[2])
        - (b[1] - a[1]) * (b[1] - a[1]) - (b[2] - a[2]) * (b[2] - a[2])

\* some circle through a and b has no other site inside it
WeakEdge(a, b, others) ==
    /\ \A c \in others : Side(a, b, c) = 0 => Power(a, b, c) >= 0
    /\ \A c, e \in others :
          (Side(a, b, c) < 0 /\ Side(a, b, e) > 0)
              => Power(a, b, c) * Side(a, b, e) >= Power(a, b, e) * Side(a, b, c)

\* some circle through a and b has every other site outside it
StrictEdge(a, b, others) ==
    /\ \A c \in others : Side(a, b, c) = 0 => Power(a, b, c) > 0
    /\ \A c, e \in others :
          (Side(a, b, c) < 0 /\ Side(a, b, e) > 0)
              => Power(a, b, c) * Side(a, b, e) > Power(a, b, e) * Side(a, b, c)

\* the open segments a b and c e have a point in common
Orient(a, b, c) ==
    (b[1] - a[1]) * (c[2] - a[2]) - (b[2] - a[2]) * (c[1] - a[1])

Crossing(a, b, c, e) ==
    /\ Orient(a, b, c) * Orient(a, b, e) < 0
    /\ Orient(c, e, a) * Orient(c, e, b) < 0

\* E is a triangulation: no two of its edges cross and no further edge of
\* weak fits in
Triangulation(E, weak, pts) ==
    /\ \A e, f \in E : ~Crossing(pts[e[1]], pts[e[2]], pts[f[1]], pts[f[2]])
    /\ \A w \in weak \ E :
          \E e \in E : Crossing(pts[e[1]], pts[e[2]], pts[w[1]], pts[w[2]])

\* The edge lists a sweep may deliver, the Delaunay triangulations of the
\* sites: the edges that are Delaunay in every triangulation and a choice of
\* those that are Delaunay in some (sites on a common circle), every site in
\* an edge.  Edges are pairs of corner indices.
WeakPairs(pts, K) ==
    {e \in K \X K :
        /\ e[1] < e[2]
        /\ WeakEdge(pts[e[1]], pts[e[2]], {pts[k] : k \in K \ {e[1], e[2]}})}

StrictPairs(pts, K, weak) ==
    {e \in weak :
        StrictEdge(pts[e[1]], pts[e[2]], {pts[k] : k \in K \ {e[1], e[2]}})}

SweepEdges(corners) ==
    UNION {UNION {UNION {UNION {
        {E \in {strict \cup T : T \in SUBSET (weak \ strict)} :
            /\ Triangulation(E, weak, pts)
            /\ Cardinality(K) >= 2 =>
                  \A k \in K : \E e \in E : k = e[1] \/ k = e[2]} :
            strict \in {StrictPairs(pts, K, weak)}} :
            weak \in {WeakPairs(pts, K)}} :
            K \in KeptSets(corners)} :
            pts \in {Lattice(corners)}}

\* the edge list as pairs of sites, in the order of the corner indices
RECURSIVE EdgeList(_, _)
EdgeList(E, corners) ==
    IF E = {} THEN << >>
    ELSE LET e == CHOOSE e \in E : \A f \in E :
                      e[1] < f[1] \/ (e[1] = f[1] /\ e[2] =< f[2])
         IN  << <<corners[e[1]], corners[e[2]]>> >> \o EdgeList(E \ {e}, corners)

\* createMesh, lines 313-316: the edge joins neighbouring addresses
IsOriginalEdge(a, b, n) ==
    (Abs(b - a) = 1 \/ Abs(b - a) = n - 1) /\ a < n /\ b < n

\* createMesh, lines 324-332: the addresses of a found edge, ordered
OrderedEdge(a, b, n) ==
    IF \/ (a = n - 1 /\ b = 0)
       \/ (b > a /\ ~(a = 0 /\ b = n - 1))
    THEN <<a, b>> ELSE <<b, a>>

\* createMesh, lines 306-336: voronoiEdges as address pairs
VoronoiEdges(edges, n) ==
    {OrderedEdge(edges[k][1].a, edges[k][2].a, n) :
        k \in {k \in 1..Len(edges) :
                  IsOriginalEdge(edges[k][1].a, edges[k][2].a, n)}}

\* createMesh, lines 306, 318: countEdges after the scan
CountEdgesOffByOne(edges, n) ==
    (n - 1) - Cardinality({k \in 1..Len(edges) :
                              IsOriginalEdge(edges[k][1].a, edges[k][2].a, n)})
CountEdges(edges, n) ==
    n - Cardinality({k \in 1..Len(edges) :
                        IsOriginalEdge(edges[k][1].a, edges[k][2].a, n)})

\* createMesh, lines 352-367: the address pair of polygon edge i
EdgeAddr(i, n) == IF i = n - 1 THEN <<i, 0>> ELSE <<i, i + 1>>

\* createMesh, lines 377-387: the site of an address, Site(0, 0, 0) if the
\* address is in no edge
PairedSite(addr, edges) ==
    LET ks == {k \in 1..Len(edges) :
                  edges[k][1].a = addr \/ edges[k][2].a = addr}
    IN  IF ks = {} THEN ZeroSite
        ELSE LET k == MaxOf(ks)
             IN  IF edges[k][2].a = addr THEN edges[k][2] ELSE edges[k][1]

\* createMesh, lines 412-446: the existing intersection c lies behind the
\* new one as seen from site1
InFrontOf(c, site1, new) ==
    IF RGt(new.x, site1.x) THEN RGt(c.x, new.x)
    ELSE IF RLt(new.x, site1.x) THEN RLt(c.x, new.x)
    ELSE IF RGt(new.y, site1.y) THEN RGt(c.y, new.y)
    ELSE IF RLt(new.y, site1.y) THEN RLt(c.y, new.y)
    ELSE FALSE

\* createMesh, lines 402-462: the loop over addCorners from index k on; the
\* new intersection is written over the first element that has a larger
\* address, or the same address and lies behind it, and the elements from
\* there on are moved back by one through oldCorner; lines 465-471: the
\* last element, or the new one if it was not placed, is emplaced
RECURSIVE ShiftIn(_, _, _, _, _, _)
ShiftIn(add, k, done, oldCorner, site1, new) ==
    IF k > Len(add) THEN Append(add, IF done THEN oldCorner ELSE new)
    ELSE IF done
    THEN ShiftIn([add EXCEPT ![k] = oldCorner], k + 1, TRUE, add[k], site1, new)
    ELSE IF \/ add[k].a > new.a
            \/ add[k].a = new.a /\ InFrontOf(add[k], site1, new)
    THEN ShiftIn([add EXCEPT ![k] = new], k + 1, TRUE, add[k], site1, new)
    ELSE ShiftIn(add, k + 1, FALSE, oldCorner, site1, new)

\* an insertion that always emplaces the new intersection at the end
InsertCornerAtEnd(add, site1, ix, iy, addrNew) ==
    Append(add, Site(ix, iy, addrNew))

\* createMesh, lines 394-471: one confirmed intersection goes into
\* addCorners
InsertCorner(add, site1, ix, iy, addrNew) ==
    ShiftIn(add, 1, FALSE, ZeroSite, site1, Site(ix, iy, addrNew))

\* createMesh, lines 391-478: the intersections of one missing edge with
\* the Delaunay edges k..Len(edges)
RECURSIVE AddForEdges(_, _, _, _, _)
AddForEdges(add, site1, site2, edges, k) ==
    IF k > Len(edges) THEN add
    ELSE CHOOSE out \in
           UNION {{AddForEdges(nxt, site1, site2, edges, k + 1) :
                      nxt \in {IF r.ok
                               THEN InsertCorner(add, site1, r.x, r.y,
                                                 site1.a + 1)
                               ELSE add}} :
                  r \in {FindIntersection(site1, site2,
                                          edges[k][1], edges[k][2])}} : TRUE

\* createMesh, lines 347-479: addCorners from the polygon edges i..n-1
RECURSIVE AddCorners(_, _, _, _)
AddCorners(add, i, n, edges) ==
    IF i >= n THEN add
    ELSE IF EdgeAddr(i, n) \in VoronoiEdges(edges, n)
    THEN AddCorners(add, i + 1, n, edges)
    ELSE CHOOSE out \in
           UNION {{AddCorners(nxt, i + 1, n, edges) :
                      nxt \in {AddForEdges(add, site1, site2, edges, 1)}} :
                  site1 \in {PairedSite(EdgeAddr(i, n)[1], edges)},
                  site2 \in {PairedSite(EdgeAddr(i, n)[2], edges)}} : TRUE

\* the splice without the renumbering of the shifted corners
SpliceOneKeepAddr(cs, c, cornerCount) ==
    LET addr3 == c.a + cornerCount
    IN  IF addr3 < Len(cs)
        THEN [i \in 1..(Len(cs) + 1) |->
                 IF i =< addr3 THEN cs[i]
                 ELSE IF i = addr3 + 1 THEN Site(c.x, c.y, addr3)
                 ELSE cs[i - 1]]
        ELSE Append(cs, Site(c.x, c.y, addr3))

\* createMesh, lines 485-513: one intersection corner goes into mCorners
SpliceOne(cs, c, cornerCount) ==
    LET addr3 == c.a + cornerCount
    IN  IF addr3 < Len(cs)
        THEN [i \in 1..(Len(cs) + 1) |->
                 IF i =< addr3 THEN cs[i]
                 ELSE IF i = addr3 + 1 THEN Site(c.x, c.y, addr3)
                 ELSE Site(cs[i - 1].x, cs[i - 1].y, i - 1)]
        ELSE Append(cs, Site(c.x, c.y, addr3))

\* createMesh, lines 482-514
RECURSIVE SpliceAll(_, _, _)
SpliceAll(cs, add, cornerCount) ==
    IF cornerCount >= Len(add) THEN cs
    ELSE CHOOSE out \in
           {SpliceAll(nxt, add, cornerCount + 1) :
               nxt \in {SpliceOne(cs, add[cornerCount + 1], cornerCount)}} : TRUE

\* the polygon edges, by the index of their first corner, for which the
\* edge list holds no edge between the addresses of its two corners
AbsentEdges(corners, edges) ==
    {i \in 0..(Len(corners) - 1) :
        LET a == corners[i + 1].a
            b == corners[((i + 1) % Len(corners)) + 1].a
        IN  ~\E k \in 1..Len(edges) :
                \/ edges[k][1].a = a /\ edges[k][2].a = b /\ a # b
                \/ edges[k][1].a = b /\ edges[k][2].a = a /\ a # b}

\* createMesh, line 297: the loop condition
MeshLoopGuardNoCap(ok, i) == ~ok
MeshLoopGuard(ok, i) == ~ok /\ i < MaxIterations

\* updateCalculation, lines 1174-1193: the projected corners; consecutive
\* equal points are filtered, addresses are the positions
GridPoints == (0..MaxX) \X (1..MaxY)
Polygons ==
    UNION {{p \in [1..n -> GridPoints] : \A i \in 1..(n - 1) : p[i] # p[i + 1]} :
           n \in 1..MaxPolygon}
CornersOf(p) ==
    [i \in 1..Len(p) |-> Site(RInt(p[i][1]), RInt(p[i][2]), i - 1)]

\* createMesh, lines 291-292
MeshStart ==
    /\ meshPc = "loop"
    /\ it = 0
    /\ edgesOK = FALSE
    /\ mCorners \in {CornersOf(p) : p \in Polygons}
    /\ absent = {}
    /\ warned = FALSE
    /\ spliced = FALSE

MeshInit == MeshStart /\ VolIdle /\ RefIdle /\ ToolIdle /\ RestIdle

\* createMesh, lines 297-522: one iteration of the loop
MeshIteration ==
    /\ meshPc = "loop"
    /\ MeshLoopGuard(edgesOK, it)
    /\ it' = it + 1
    /\ \E E \in SweepEdges(mCorners) :
       \E edges \in {EdgeList(E, mCorners)} :
         IF CountEdges(edges, Len(mCorners)) # 0
         THEN \E add \in {AddCorners(<< >>, 0, Len(mCorners), edges)} :
                /\ mCorners' = SpliceAll(mCorners, add, 0)
                /\ edgesOK' = FALSE
                /\ spliced' = (add # << >>)
                /\ absent' = AbsentEdges(mCorners', edges)
         ELSE /\ edgesOK' = TRUE
              /\ spliced' = FALSE
              /\ absent' = AbsentEdges(mCorners, edges)
              /\ UNCHANGED mCorners
    /\ UNCHANGED <<meshPc, warned>>
    /\ UNCHANGED <<volVars, refVars, toolVars, restVars>>

\* createMesh, lines 297, 524-529: the loop is left, the warning is logged
\* if the edges are not all there
MeshReturn ==
    /\ meshPc = "loop"
    /\ ~MeshLoopGuard(edgesOK, it)
    /\ warned' = ~edgesOK
    /\ meshPc' = "done"
    /\ UNCHANGED <<it, edgesOK, mCorners, absent, spliced>>
    /\ UNCHANGED <<volVars, refVars, toolVars, restVars>>

MeshNext == MeshIteration \/ MeshReturn

SpecMesh == MeshInit /\ [][MeshNext]_vars

\* createMesh is a sequential function: it takes its next step
SpecMeshLive == MeshInit /\ [][MeshNext]_vars /\ WF_vars(MeshNext)

-----------------------------------------------------------------------------
(* SpecMeshFlow: the loop of createMesh for polygons whose sweeps leave    *)
(* many intersections.  The sweep is not computed here: an iteration takes *)
(* any outcome the checks of createMesh and findIntersection admit, that   *)
(* is either every polygon edge is found, or some are missing and a        *)
(* bounded list of intersections on them is confirmed.  The insertion into *)
(* addCorners and the splice into mCorners are the ones of SpecMesh.  The  *)
(* history variable absent is not recorded here.                           *)

MaxHits == 2
MaxFlowCorners == 10

\* the positions on an edge at which an intersection is taken
FlowParams == {R(1, 3), R(2, 3)}

\* the polygons createMesh starts with
FlowPolygons ==
    {<<<<2, 3>>, <<1, 2>>, <<2, 5>>, <<1, 1>>, <<1, 3>>>>}

\* the point at the fraction t of the way from site1 to site2
PointOn(site1, site2, t) ==
    [x |-> RAdd(site1.x, RMul(t, RSub(site2.x, site1.x))),
     y |-> RAdd(site1.y, RMul(t, RSub(site2.y, site1.y)))]

\* findIntersection, lines 239-276, as far as the polygon edge site1-site2
\* is concerned: no zero coordinate, no vertical edge, the point between
\* the end points in x and in y and outside their safety bands
ConfirmedOn(site1, site2, ix, iy) ==
    /\ ~RZero(site1.x) /\ ~RZero(site2.x)
    /\ ~RZero(site1.y) /\ ~RZero(site2.y)
    /\ site1.x # site2.x
    /\ RGt(site1.x, ix) # RGt(site2.x, ix)
    /\ RGt(site1.y, iy) # RGt(site2.y, iy)
    /\ OutsideBand(site1, ix, iy)
    /\ OutsideBand(site2, ix, iy)

\* createMesh, lines 347-394: one confirmed intersection of the polygon
\* edge i (from cs[i + 1] to its successor)
Hit(cs, i, t) ==
    LET site1 == cs[i + 1]
        site2 == cs[((i + 1) % Len(cs)) + 1]
        p == PointOn(site1, site2, t)
    IN  [i |-> i, x |-> p.x, y |-> p.y, site1 |-> site1,
         ok |-> ConfirmedOn(site1, site2, p.x, p.y)]

\* createMesh, lines 347-394: the intersections one iteration confirms, in
\* the order of the loops: the polygon edges in ascending order, the
\* Delaunay edges of one polygon edge in any order.  Two Delaunay edges do
\* not cross, so no point is confirmed twice.
HitSeqs(cs) ==
    LET H == {h \in {Hit(cs, i, t) : i \in 0..(Len(cs) - 1), t \in FlowParams} :
                 h.ok}
    IN  UNION {{q \in [1..n -> H] :
                   /\ \A k \in 1..(n - 1) : q[k].i =< q[k + 1].i
                   /\ \A k, l \in 1..n : k # l => q[k] # q[l]} :
               n \in 0..MaxHits}

\* createMesh, lines 391-478: the intersections h[k..] go into addCorners
RECURSIVE FoldHits(_, _, _)
FoldHits(add, h, k) ==
    IF k > Len(h) THEN add
    ELSE CHOOSE out \in
           {FoldHits(nxt, h, k + 1) :
               nxt \in {InsertCorner(add, h[k].site1, h[k].x, h[k].y,
                                     h[k].site1.a + 1)}} : TRUE

\* createMesh, lines 291-292
FlowStart ==
    /\ meshPc = "loop"
    /\ it = 0
    /\ edgesOK = FALSE
    /\ mCorners \in {CornersOf(p) : p \in FlowPolygons}
    /\ absent = {}
    /\ warned = FALSE
    /\ spliced = FALSE

FlowInit ==
    /\ FlowStart /\ FlowIdle /\ BeachIdle /\ PlugIdle /\ FnIdle
    /\ VolIdle /\ RefIdle /\ ToolIdle

\* createMesh, lines 297-343, 516-522: the sweep finds every polygon edge
FlowEdgesFound ==
    /\ meshPc = "loop"
    /\ MeshLoopGuard(edgesOK, it)
    /\ it' = it + 1
    /\ edgesOK' = TRUE
    /\ spliced' = FALSE
    /\ cornersBefore' = mCorners
    /\ hits' = << >>
    /\ addCorners' = << >>
    /\ UNCHANGED <<meshPc, warned, mCorners, absent>>
    /\ UNCHANGED <<volVars, refVars, toolVars, beachVars, plugVars, fnVars>>

\* createMesh, lines 297-515, 521-522: polygon edges are missing, the
\* confirmed intersections are inserted into addCorners and spliced into
\* mCorners; the triangles are those of the sweep of this iteration
FlowEdgesMissing ==
    /\ meshPc = "loop"
    /\ MeshLoopGuard(edgesOK, it)
    /\ it' = it + 1
    /\ \E h \in HitSeqs(mCorners) :
         /\ Len(mCorners) + Len(h) =< MaxFlowCorners
         /\ \E add \in {FoldHits(<< >>, h, 1)} :
              /\ hits' = h
              /\ addCorners' = add
              /\ mCorners' = SpliceAll(mCorners, add, 0)
              /\ spliced' = (add # << >>)
    /\ edgesOK' = FALSE
    /\ cornersBefore' = mCorners
    /\ UNCHANGED <<meshPc, warned, absent>>
    /\ UNCHANGED <<volVars, refVars, toolVars, beachVars, plugVars, fnVars>>

\* createMesh, lines 297, 524-529
FlowReturn ==
    /\ meshPc = "loop"
    /\ ~MeshLoopGuard(edgesOK, it)
    /\ warned' = ~edgesOK
    /\ meshPc' = "done"
    /\ UNCHANGED <<it, edgesOK, mCorners, absent, spliced>>
    /\ UNCHANGED <<volVars, refVars, toolVars, restVars>>

FlowNext == FlowEdgesFound \/ FlowEdgesMissing \/ FlowReturn

SpecMeshFlow == FlowInit /\ [][FlowNext]_vars

-----------------------------------------------------------------------------
(* Spec: the event handlers of PolygonTool and the part of                 *)
(* updateCalculation in front of createMesh.  Anchor positions are integer *)
(* vectors on a sphere of radius Radius around the body centre, the zero   *)
(* vector (glm::length(vec) == 0) or NaN.                                  *)

Pos(v) == [nan |-> FALSE, v |-> v]
NaNPos == [nan |-> TRUE, v |-> <<0, 0, 0>>]
ZeroPos == Pos(<<0, 0, 0>>)
SpherePositions ==
    {Pos(<<0, 3, 0>>), Pos(<<1, 2, 2>>), Pos(<<2, 2, 1>>), Pos(<<-1, -2, -2>>)}
Positions == SpherePositions \cup {ZeroPos, NaNPos}

\* updateCalculation, line 1066: radii[0]
Radius == 3

HeightScales == {1, 2}

Dot(a, b) == a[1] * b[1] + a[2] * b[2] + a[3] * b[3]
Cross(a, b) ==
    <<a[2] * b[3] - a[3] * b[2], a[3] * b[1] - a[1] * b[3],
      a[1] * b[2] - a[2] * b[1]>>
VSub(a, b) == <<a[1] - b[1], a[2] - b[2], a[3] - b[3]>>
VScale(k, a) == <<k * a[1], k * a[2], k * a[3]>>

\* onPointMoved / onPointAdded, lines 923, 937: the point is not on the planet
OffPlanet(p) == p.nan \/ p.v = <<0, 0, 0>>
AnyOffPlanet(marks) == \E i \in 1..Len(marks) : OffPlanet(marks[i])

HasNaN(marks) == \E i \in 1..Len(marks) : marks[i].nan

\* lines 1069-1071: averagePosition times the number of marks
RECURSIVE SumFrom(_, _)
SumFrom(marks, i) ==
    IF i > Len(marks) THEN <<0, 0, 0>>
    ELSE VSub(SumFrom(marks, i + 1), VScale(-1, marks[i].v))

\* lines 1088-1093: maxDist, squared and times the squared number of marks;
\* with a NaN mark every dist is NaN and maxDist stays 0
LargestDistSq(marks) ==
    IF HasNaN(marks) THEN 0
    ELSE MaxOf({Dot(d, d) :
                  d \in {VSub(SumFrom(marks, 1), VScale(Len(marks), marks[i].v)) :
                            i \in 1..Len(marks)}})

\* line 1097: maxDist > radii[0]
ExceedsRadiusNever(marks) == FALSE
ExceedsRadius(marks) ==
    LargestDistSq(marks) > Radius * Radius * Len(marks) * Len(marks)

\* lines 1113-1123: north, up to a positive factor; NaN (normalize of the
\* zero vector) when the normal is the y axis
NorthNaN(a) == a[2] # 0 /\ a[1] = 0 /\ a[3] = 0
North(a) ==
    IF a[2] # 0
    THEN <<-(a[1] * a[2]), a[1] * a[1] + a[3] * a[3], -(a[3] * a[2])>>
    ELSE <<0, 1, 0>>

\* line 1125: east, up to a positive factor
East(a) == VScale(-1, Cross(a, North(a)))

\* lines 1105-1109, 1178-1186: x / maxDist or y / maxDist is NaN for every
\* mark: a NaN mark, the centroid at the body centre (normalize of the zero
\* vector), the normal on the y axis, or maxDist = 0 (0 / 0)
AllNaN(marks) ==
    \/ HasNaN(marks)
    \/ SumFrom(marks, 1) = <<0, 0, 0>>
    \/ NorthNaN(SumFrom(marks, 1))
    \/ LargestDistSq(marks) = 0

\* lines 1178-1183: pos - mMiddlePoint is a positive multiple of
\* (cur (a.a) - a (a.cur)) / (a.cur), a the sum of the marks; the chart
\* coordinates are modelled up to a positive factor per axis.  A mark at the
\* body centre has k = inf and pos = NaN.
ChartNaN(cur, a) == Dot(a, cur) <= 0
Chart(cur, a, addr) ==
    LET n == VSub(VScale(Dot(a, a), cur), VScale(Dot(a, cur), a))
    IN  Site(R(Dot(East(a), n), Dot(a, cur)), R(Dot(North(a), n), Dot(a, cur)),
             addr)

\* line 1176: currentPosition != lastPosition; NaN differs from everything
PosNe(p, q) == p.nan \/ q.nan \/ p.v # q.v

\* lines 1169-1195: the projection loop from mark i on; last is lastPosition,
\* the address of a new corner is the number of corners so far.  The loop
\* returns from updateCalculation at the first NaN coordinate.
RECURSIVE ProjectFrom(_, _, _, _)
ProjectFrom(marks, i, last, corners) ==
    IF i > Len(marks) THEN [nan |-> FALSE, corners |-> corners]
    ELSE IF ~PosNe(marks[i], last)
    THEN ProjectFrom(marks, i + 1, last, corners)
    ELSE IF AllNaN(marks) \/ ChartNaN(marks[i].v, SumFrom(marks, 1))
    THEN [nan |-> TRUE, corners |-> corners]
    ELSE ProjectFrom(marks, i + 1, marks[i],
                     Append(corners, Chart(marks[i].v, SumFrom(marks, 1),
                                           Len(corners))))

\* line 1170: glm::dvec3 lastPosition is not initialized; it holds whatever
\* the stack held, for instance the lastPosition of the previous call
LastPositionValues == Positions \cup {Pos(<<9, 9, 9>>)}

\* createMesh, the refinement loop and the integrator (SpecMesh, SpecRefine,
\* SpecVol) are summed up in Spec by their dependence on the corners: a
\* polygon of n >= 3 corners yields n - 2 interior triangles, each seeded
\* with its three sites, and the displayed values stand for their number;
\* fewer than 3 sites yield no triangle and the values 0.
Triangles(corners) == IF Len(corners) < 3 THEN 0 ELSE Len(corners) - 2
AreaOf(corners) == F(Triangles(corners))
VolumeOf(corners) == <<F(Triangles(corners)), F(0 - Triangles(corners))>>
MeshOf(corners) ==
    [k \in 1..Triangles(corners) |->
        <<corners[1], corners[k + 1], corners[k + 2]>>]
FineOf(corners) == [k \in 1..Triangles(corners) |-> <<0, 1, 2>>]

\* the variables of the other specifications that the handlers do not touch
volRest == <<volPc, cavIt, area, posVolume, negVolume, cleanArea, nanVertex>>
refRest == <<refPc, fine, attempt, pointCount, triangleCount, triIx, inside,
             mMaxAttempt, mMaxPoints, sleekAdded, refineAdded>>
meshRest == <<meshPc, it, edgesOK, absent, warned, spliced>>

\* PolygonTool::updateLineVertices, lines 958-1049: a line segment between
\* each mark and the next and one from the last mark to the first, sampled
\* with the current height scale
Segments(marks, hs) ==
    [i \in 1..Len(marks) |-> <<marks[i], marks[(i % Len(marks)) + 1], hs>>]

UpdateLineVertices(marks, hs) ==
    IF Len(marks) = 0
    THEN UNCHANGED mSampledPositions
    ELSE mSampledPositions' = Segments(marks, hs)

\* PolygonTool::updateCalculation, lines 1056-1310
UpdateCalculation(marks) ==
    IF Len(marks) < 3
    THEN \* lines 1058-1059
         /\ ran' = "short"
         /\ UNCHANGED <<mCorners, mCornersFine, mTriangulation, guiArea,
                        guiVolume, mShowMesh, mIndexCount2>>
         /\ lastRun' = marks
    ELSE IF ExceedsRadius(marks)
    THEN \* lines 1061-1063, 1097-1102
         /\ ran' = "tooLarge"
         /\ mCorners' = << >>
         /\ mCornersFine' = << >>
         /\ mTriangulation' = << >>
         /\ guiArea' = F(0)
         /\ guiVolume' = <<F(0), F(0)>>
         /\ mShowMesh' = FALSE
         /\ UNCHANGED mIndexCount2
         /\ lastRun' = marks
    ELSE \E garbage \in LastPositionValues :
         \E p \in {ProjectFrom(marks, 1, garbage, << >>)} :
           IF p.nan
           THEN \* lines 1061-1063, 1186-1187
                /\ ran' = "nan"
                /\ mCorners' = p.corners
                /\ mCornersFine' = << >>
                /\ mTriangulation' = << >>
                /\ UNCHANGED <<guiArea, guiVolume, mShowMesh, mIndexCount2>>
                /\ lastRun' = marks
           ELSE \* lines 1197-1309
                /\ ran' = "full"
                /\ mCorners' = p.corners
                /\ mCornersFine' = FineOf(p.corners)
                /\ mTriangulation' = MeshOf(p.corners)
                /\ guiArea' = AreaOf(p.corners)
                /\ guiVolume' = VolumeOf(p.corners)
                /\ mIndexCount2' = Len(MeshOf(p.corners))
                /\ UNCHANGED mShowMesh
                /\ lastRun' = marks

\* the handler returned in front of updateLineVertices
Skipped ==
    /\ ran' = "skipped"
    /\ UNCHANGED <<mSampledPositions, mCorners, mCornersFine, mTriangulation,
                   guiArea, guiVolume, mShowMesh, mIndexCount2, lastRun>>

\* PolygonTool::onPointMoved, lines 919-929
OnPointMoved(marks, hs) ==
    IF AnyOffPlanet(marks) THEN Skipped
    ELSE UpdateLineVertices(marks, hs) /\ UpdateCalculation(marks)

\* PolygonTool::onPointAdded, lines 933-943
OnPointAdded(marks, hs) ==
    IF AnyOffPlanet(marks) THEN Skipped
    ELSE UpdateLineVertices(marks, hs) /\ UpdateCalculation(marks)

\* PolygonTool::onPointRemoved, lines 947-954
OnPointRemoved(marks, hs) ==
    /\ pAddPointMode' = IF Len(marks) = 2 THEN TRUE ELSE pAddPointMode
    /\ UpdateLineVertices(marks, hs)
    /\ UpdateCalculation(marks)

\* the callback of pHeightScale, lines 137-140
OnHeightScale(marks, hs) ==
    UpdateLineVertices(marks, hs) /\ UpdateCalculation(marks)

\* the state after the constructor: the callback of pHeightScale was touched
\* without marks, then addPoint() added the first mark
Init ==
    /\ VolIdle /\ RefIdle /\ MeshIdle /\ RestIdle
    /\ pHeightScale \in HeightScales
    /\ pAddPointMode = TRUE
    /\ mShowMesh = FALSE
    /\ mTriangulation = << >>
    /\ mIndexCount2 = 0
    /\ mPoints \in {<<p>> : p \in Positions}
    /\ mSampledPositions = IF AnyOffPlanet(mPoints) THEN << >>
                           ELSE Segments(mPoints, pHeightScale)
    /\ ran = IF AnyOffPlanet(mPoints) THEN "skipped" ELSE "short"
    /\ lastRun = IF AnyOffPlanet(mPoints) THEN << >> ELSE mPoints
    /\ events = 0

\* a mark is dragged to another position
PointMoved ==
    /\ events < MaxEvents
    /\ events' = events + 1
    /\ \E i \in 1..Len(mPoints), p \in Positions :
          /\ p # mPoints[i]
          /\ mPoints' = [mPoints EXCEPT ![i] = p]
    /\ OnPointMoved(mPoints', pHeightScale)
    /\ UNCHANGED <<pHeightScale, pAddPointMode>>
    /\ UNCHANGED <<volRest, refRest, meshRest, restVars>>

\* MultiPointTool::addPoint (a click in add-point mode, the callback
\* setAddPointMode) adds a mark
PointAdded ==
    /\ events < MaxEvents
    /\ events' = events + 1
    /\ Len(mPoints) < MaxMarks
    /\ \E p \in Positions : mPoints' = Append(mPoints, p)
    /\ OnPointAdded(mPoints', pHeightScale)
    /\ UNCHANGED <<pHeightScale, pAddPointMode>>
    /\ UNCHANGED <<volRest, refRest, meshRest, restVars>>

\* a mark is deleted
PointRemoved ==
    /\ events < MaxEvents
    /\ events' = events + 1
    /\ \E i \in 1..Len(mPoints) :
          mPoints' = SubSeq(mPoints, 1, i - 1) \o SubSeq(mPoints, i + 1, Len(mPoints))
    /\ OnPointRemoved(mPoints', pHeightScale)
    /\ UNCHANGED pHeightScale
    /\ UNCHANGED <<volRest, refRest, meshRest, restVars>>

\* the height scale of the graphics engine changes
HeightScaleChanged ==
    /\ events < MaxEvents
    /\ events' = events + 1
    /\ \E h \in HeightScales : h # pHeightScale /\ pHeightScale' = h
    /\ OnHeightScale(mPoints, pHeightScale')
    /\ UNCHANGED <<mPoints, pAddPointMode>>
    /\ UNCHANGED <<volRest, refRest, meshRest, restVars>>

\* the callback showMesh, lines 128-129
ShowMesh ==
    /\ events < MaxEvents
    /\ events' = events + 1
    /\ mShowMesh' = ~mShowMesh
    /\ UNCHANGED <<mPoints, pHeightScale, pAddPointMode, mSampledPositions,
                   mTriangulation, mIndexCount2, ran, lastRun, mCorners,
                   mCornersFine, guiArea, guiVolume>>
    /\ UNCHANGED <<volRest, refRest, meshRest, restVars>>

Next ==
    \/ PointMoved
    \/ PointAdded
    \/ PointRemoved
    \/ HeightScaleChanged
    \/ ShowMesh

Spec == Init /\ [][Next]_vars

-----------------------------------------------------------------------------
(* SpecBeach: the beach line of one sweep.  Arc, Breakpoint and Circle     *)
(* objects are numbered in the order of their allocation; a pointer is the *)
(* number of its object, 0 is NULL.  Sites have integer coordinates.  The  *)
(* callers of Beachline (VoronoiGenerator::process, addCircleEvent) and    *)
(* the breakpoint index are modelled from the specification.               *)

MaxBeachSites == 4
MaxBeachX == 2
MaxBeachY == 2
MaxCircles == 3

\* Arc::Arc, Arc.cpp lines 12-17
NewArc(s) == [site |-> s, lb |-> 0, rb |-> 0, ev |-> 0, live |-> TRUE]

\* a breakpoint that names its left arc on both sides
NewBreakLeftOnly(l, r) == [l |-> l, r |-> l, del |-> FALSE]

\* a breakpoint with its two arcs exchanged
NewBreakSwapped(l, r) == [l |-> r, r |-> l, del |-> FALSE]

\* Breakpoint(left, right, generator)
NewBreak(l, r) == [l |-> l, r |-> r, del |-> FALSE]

\* an invalidateEvent that leaves the event valid
InvalidateEventNoop(circles, arcs, a) == circles

\* Arc::invalidateEvent, Arc.cpp lines 19-28: the event is marked invalid
InvalidateEvent(circles, arcs, a) ==
    IF arcs[a].ev # 0
    THEN [circles EXCEPT ![arcs[a].ev].valid = FALSE]
    ELSE circles

\* an invalidateEvent that keeps the pointer to the event
DetachEventKeep(arcs, a) == arcs

\* Arc::invalidateEvent, Arc.cpp line 26: the event is detached
DetachEvent(arcs, a) == [arcs EXCEPT ![a].ev = 0]

\* an edge that leaves out its first site
TriangulationEdgeSelf(s1, s2) == <<s2, s2>>

\* addTriangulationEdge(site1, site2) as called by the beach line
TriangulationEdge(s1, s2) == <<s1, s2>>

\* the arcs linked from the breakpoints of the index
ChainArcs == UNION {{bBreaks[b].l, bBreaks[b].r} : b \in bIndex}

\* twice the height of the parabola with focus f over the directrix y = d,
\* at x, as numerator and denominator
ParabolaNum(f, d, x) ==
    (x - f.x.n) * (x - f.x.n) + f.y.n * f.y.n - d * d
ParabolaDen(f, d) == f.y.n - d

\* mBreakPoints.getArcAt(x) with the sweep line at y = d: an arc of the
\* site whose parabola is the lowest at x; any arc of the chain if every
\* focus lies on the sweep line
GetArcAt(x, d) ==
    LET above == {a \in ChainArcs : bArcs[a].site.y.n > d}
    IN  IF above = {} THEN ChainArcs
        ELSE {a \in above : \A b \in above :
                 ParabolaNum(bArcs[a].site, d, x) * ParabolaDen(bArcs[b].site, d)
                   =< ParabolaNum(bArcs[b].site, d, x) * ParabolaDen(bArcs[a].site, d)}

\* Beachline::insertArcFor, part_000 line 29: the values brokenArcLeft
\* can take
BrokenArcLeft(site) ==
    IF bIndex = {} THEN {mRoot} ELSE GetArcAt(site.x.n, site.y.n)

\* Beachline::insertArcFor, part_000 lines 27-66, with brokenArcLeft = A
InsertAt(site, A) ==
         LET new == Len(bArcs) + 1
             bp == Len(bBreaks) + 1
             arcs1 == DetachEvent(bArcs, A)
             oldRb == bArcs[A].rb
         IN  /\ bCircles' = InvalidateEvent(bCircles, bArcs, A)
             /\ mTriangulationEdges' =
                    Append(mTriangulationEdges,
                           TriangulationEdge(bArcs[A].site, site))
             /\ bArc' = A
             /\ UNCHANGED mRoot
             /\ IF site.y = bArcs[A].site.y
                THEN IF site.x.n < bArcs[A].site.x.n
                     THEN /\ bBreaks' = Append(bBreaks, NewBreak(new, A))
                          /\ bArcs' = Append([arcs1 EXCEPT ![A].lb = bp],
                                             [NewArc(site) EXCEPT !.rb = bp])
                          /\ bIndex' = bIndex \cup {bp}
                          /\ bOp' = "sameYLeft"
                     ELSE /\ bBreaks' = Append(bBreaks, NewBreak(A, new))
                          /\ bArcs' = Append([arcs1 EXCEPT ![A].rb = bp],
                                             [NewArc(site) EXCEPT !.lb = bp])
                          /\ bIndex' = bIndex \cup {bp}
                          /\ bOp' = "sameYRight"
                ELSE /\ bBreaks' =
                        (IF oldRb # 0 /\ bArcs[bBreaks[oldRb].r].lb # 0
                         THEN [bBreaks EXCEPT
                                 ![bArcs[bBreaks[oldRb].r].lb].l = new + 1]
                         ELSE bBreaks)
                        \o <<NewBreak(A, new), NewBreak(new, new + 1)>>
                     /\ bArcs' = [arcs1 EXCEPT ![A].rb = bp]
                        \o << [NewArc(site) EXCEPT !.lb = bp, !.rb = bp + 1],
                              [NewArc(bArcs[A].site) EXCEPT
                                  !.lb = bp + 1, !.rb = oldRb] >>
                     /\ bIndex' = bIndex \cup {bp, bp + 1}
                     /\ bOp' = "split"

\* Beachline::insertArcFor, part_000 lines 20-67
InsertArcFor(site) ==
    IF mRoot = 0
    THEN /\ bArcs' = Append(bArcs, NewArc(site))
         /\ mRoot' = Len(bArcs) + 1
         /\ bOp' = "root"
         /\ bArc' = 0
         /\ UNCHANGED <<bBreaks, bIndex, bCircles, mTriangulationEdges>>
    ELSE \E A \in BrokenArcLeft(site) : InsertAt(site, A)

\* Beachline::removeArc, part_000 lines 69-105
RemoveArc(arc) ==
    LET lb == bArcs[arc].lb
        rb == bArcs[arc].rb
        leftArc == IF lb # 0 THEN bBreaks[lb].l ELSE 0
        rightArc == IF rb # 0 THEN bBreaks[rb].r ELSE 0
        c1 == InvalidateEvent(bCircles, bArcs, arc)
        c2 == IF leftArc # 0 THEN InvalidateEvent(c1, bArcs, leftArc) ELSE c1
        c3 == IF rightArc # 0 THEN InvalidateEvent(c2, bArcs, rightArc) ELSE c2
        a1 == DetachEvent(bArcs, arc)
        a2 == IF leftArc # 0 THEN DetachEvent(a1, leftArc) ELSE a1
        a3 == IF rightArc # 0 THEN DetachEvent(a2, rightArc) ELSE a2
        merged == Len(bBreaks) + 1
    IN  /\ bCircles' = c3
        /\ bArc' = arc
        /\ UNCHANGED mRoot
        /\ IF leftArc # 0 /\ rightArc # 0
           THEN /\ mTriangulationEdges' =
                      Append(mTriangulationEdges,
                             TriangulationEdge(bArcs[leftArc].site,
                                               bArcs[rightArc].site))
                /\ bArcs' = [a3 EXCEPT ![leftArc].rb = merged,
                                       ![rightArc].lb = merged,
                                       ![arc].live = FALSE]
                /\ bIndex' = (bIndex \ {rb, lb}) \cup {merged}
                /\ bBreaks' = Append([bBreaks EXCEPT ![lb].del = TRUE,
                                                     ![rb].del = TRUE],
                                     NewBreak(leftArc, rightArc))
                /\ bOp' = "merge"
           ELSE IF leftArc # 0
           THEN /\ bIndex' = bIndex \ {lb}
                /\ bArcs' = [a3 EXCEPT ![leftArc].rb = 0, ![arc].live = FALSE]
                /\ bBreaks' = [bBreaks EXCEPT ![lb].del = TRUE]
                /\ bOp' = "dropLeft"
                /\ UNCHANGED mTriangulationEdges
           ELSE IF rightArc # 0
           THEN /\ bIndex' = bIndex \ {rb}
                /\ bArcs' = [a3 EXCEPT ![rightArc].lb = 0, ![arc].live = FALSE]
                /\ bBreaks' = [bBreaks EXCEPT ![rb].del = TRUE]
                /\ bOp' = "dropRight"
                /\ UNCHANGED mTriangulationEdges
           ELSE /\ bArcs' = [a3 EXCEPT ![arc].live = FALSE]
                /\ bOp' = "dropNone"
                /\ UNCHANGED <<bIndex, bBreaks, mTriangulationEdges>>

\* the grid points of a sweep
BeachPoints == (0..MaxBeachX) \X (0..MaxBeachY)

\* the site events in the order of the queue: y descending, x ascending
RECURSIVE SweepOrder(_, _)
SweepOrder(S, k) ==
    IF S = {} THEN << >>
    ELSE LET p == CHOOSE p \in S : \A q \in S :
                      p[2] > q[2] \/ (p[2] = q[2] /\ p[1] =< q[1])
         IN  <<Site(RInt(p[1]), RInt(p[2]), k)>> \o SweepOrder(S \ {p}, k + 1)

\* VoronoiGenerator::parse: the queue of site events is filled
BeachStart ==
    /\ bArcs = << >>
    /\ bBreaks = << >>
    /\ bIndex = {}
    /\ mRoot = 0
    /\ bCircles = << >>
    /\ mTriangulationEdges = << >>
    /\ mSiteEvents \in {SweepOrder(S, 0) :
                            S \in {S \in SUBSET BeachPoints :
                                      Cardinality(S) \in 1..MaxBeachSites}}
    /\ bOp = "none"
    /\ bArc = 0

BeachInit ==
    /\ BeachStart /\ VolIdle /\ RefIdle /\ MeshIdle /\ ToolIdle
    /\ PlugIdle /\ FlowIdle /\ FnIdle

\* VoronoiGenerator::process(Site): the next site is taken from the queue
\* and inserted
ProcessSite ==
    /\ mSiteEvents # << >>
    /\ InsertArcFor(Head(mSiteEvents))
    /\ mSiteEvents' = Tail(mSiteEvents)
    /\ UNCHANGED <<volVars, refVars, meshVars, toolVars, plugVars, flowVars,
                   fnVars>>

\* VoronoiGenerator::addCircleEvent: an arc between two breakpoints that
\* has no event gets one
AddCircleEvent ==
    /\ Len(bCircles) < MaxCircles
    /\ \E a \in ChainArcs :
          /\ bArcs[a].live
          /\ bArcs[a].lb # 0 /\ bArcs[a].rb # 0
          /\ bArcs[a].ev = 0
          /\ bCircles' = Append(bCircles, [arc |-> a, valid |-> TRUE])
          /\ bArcs' = [bArcs EXCEPT ![a].ev = Len(bCircles) + 1]
          /\ bOp' = "circle"
          /\ bArc' = a
    /\ UNCHANGED <<bBreaks, bIndex, mRoot, mTriangulationEdges, mSiteEvents>>
    /\ UNCHANGED <<volVars, refVars, meshVars, toolVars, plugVars, flowVars,
                   fnVars>>

\* VoronoiGenerator::process(Circle*): a valid event removes its arc;
\* invalid events are skipped
ProcessCircle ==
    /\ \E e \in 1..Len(bCircles) :
          /\ bCircles[e].valid
          /\ RemoveArc(bCircles[e].arc)
    /\ UNCHANGED mSiteEvents
    /\ UNCHANGED <<volVars, refVars, meshVars, toolVars, plugVars, flowVars,
                   fnVars>>

BeachNext == ProcessSite \/ AddCircleEvent \/ ProcessCircle

SpecBeach == BeachInit /\ [][BeachNext]_vars

-----------------------------------------------------------------------------
(* SpecBeachOps: any sequence of insertArcFor and removeArc.  The sites    *)
(* come in sweep order; removeArc is applied to any arc that has not been  *)
(* deleted, with or without neighbours.  An operation that would read an   *)
(* Arc or a Breakpoint after its delete, or follow a NULL pointer, has     *)
(* undefined behaviour: the run ends there (bOp = "undefined").            *)

MaxOpsSites == 3
MaxOpsCircles == 2

\* the breakpoint b (0 for NULL) is NULL or has not been deleted
BreakOK(b) == b = 0 \/ ~bBreaks[b].del

\* part_000 lines 30-60: insertArcFor with brokenArcLeft = A reads only
\* objects that exist; line 57 follows mRightBreak->mRightArc->mLeftBreak
DefinedInsert(site, A) ==
    /\ bArcs[A].live
    /\ \/ site.y = bArcs[A].site.y
       \/ bArcs[A].rb = 0
       \/ /\ ~bBreaks[bArcs[A].rb].del
          /\ bArcs[bBreaks[bArcs[A].rb].r].live
          /\ bArcs[bBreaks[bArcs[A].rb].r].lb # 0
          /\ ~bBreaks[bArcs[bBreaks[bArcs[A].rb].r].lb].del

\* part_000 lines 70-101: removeArc(arc) reads only objects that exist
DefinedRemove(arc) ==
    /\ BreakOK(bArcs[arc].lb)
    /\ BreakOK(bArcs[arc].rb)
    /\ bArcs[arc].lb # 0 => bArcs[bBreaks[bArcs[arc].lb].l].live
    /\ bArcs[arc].rb # 0 => bArcs[bBreaks[bArcs[arc].rb].r].live

\* the outcome of an operation with undefined behaviour is not followed
Undefined(a) ==
    /\ bOp' = "undefined"
    /\ bArc' = a
    /\ UNCHANGED <<bArcs, bBreaks, bIndex, mRoot, bCircles,
                   mTriangulationEdges>>

\* VoronoiGenerator::parse: the queue of site events is filled
OpsStart ==
    /\ bArcs = << >>
    /\ bBreaks = << >>
    /\ bIndex = {}
    /\ mRoot = 0
    /\ bCircles = << >>
    /\ mTriangulationEdges = << >>
    /\ mSiteEvents \in {SweepOrder(S, 0) :
                            S \in {S \in SUBSET BeachPoints :
                                      Cardinality(S) \in 1..MaxOpsSites}}
    /\ bOp = "none"
    /\ bArc = 0

OpsInit ==
    /\ OpsStart /\ VolIdle /\ RefIdle /\ MeshIdle /\ ToolIdle
    /\ PlugIdle /\ FlowIdle /\ FnIdle

\* insertArcFor(site) for the next site of the queue
OpsInsert ==
    /\ bOp # "undefined"
    /\ mSiteEvents # << >>
    /\ LET site == Head(mSiteEvents)
       IN  IF mRoot = 0 THEN InsertArcFor(site)
           ELSE \E A \in BrokenArcLeft(site) :
                   IF DefinedInsert(site, A) THEN InsertAt(site, A)
                   ELSE Undefined(A)
    /\ mSiteEvents' = Tail(mSiteEvents)
    /\ UNCHANGED <<volVars, refVars, meshVars, toolVars, plugVars, flowVars,
                   fnVars>>

\* an arc with two breakpoints and no event gets a circle event
OpsAddCircleEvent ==
    /\ bOp # "undefined"
    /\ Len(bCircles) < MaxOpsCircles
    /\ \E a \in 1..Len(bArcs) :
          /\ bArcs[a].live
          /\ bArcs[a].lb # 0 /\ bArcs[a].rb # 0
          /\ bArcs[a].ev = 0
          /\ bCircles' = Append(bCircles, [arc |-> a, valid |-> TRUE])
          /\ bArcs' = [bArcs EXCEPT ![a].ev = Len(bCircles) + 1]
          /\ bOp' = "circle"
          /\ bArc' = a
    /\ UNCHANGED <<bBreaks, bIndex, mRoot, mTriangulationEdges, mSiteEvents>>
    /\ UNCHANGED <<volVars, refVars, meshVars, toolVars, plugVars, flowVars,
                   fnVars>>

\* removeArc(arc) for any arc that has not been deleted
OpsRemove ==
    /\ bOp # "undefined"
    /\ \E arc \in 1..Len(bArcs) :
          /\ bArcs[arc].live
          /\ IF DefinedRemove(arc) THEN RemoveArc(arc) ELSE Undefined(arc)
    /\ UNCHANGED mSiteEvents
    /\ UNCHANGED <<volVars, refVars, meshVars, toolVars, plugVars, flowVars,
                   fnVars>>

OpsNext == OpsInsert \/ OpsAddCircleEvent \/ OpsRemove

SpecBeachOps == OpsInit /\ [][OpsNext]_vars

-----------------------------------------------------------------------------
(* SpecPlugin: tool selection and Plugin::update (src/src/Plugin.cpp).     *)

MaxTools == 3

\* the names measurementTools.setNext is called with
ToolNames ==
    {"none", "Location Flag", "Landing Ellipse", "Path", "Dip & Strike",
     "Polygon", "Ruler"}

\* lines 696-727: the names a tool is created for
KnownTools ==
    {"Location Flag", "Landing Ellipse", "Path", "Dip & Strike", "Polygon"}

\* what the cursor is over at a button event
Hovered == {"nothing", "object", "body"}

\* a selection that survives the click
AfterClickKeep(name) == name

\* line 731: mNextTool after a release on a body
AfterClick(name) == "none"

\* an iterator that moves on after erase as well
NextItSkip(i, erased) == i + 1

\* lines 769-774: erase returns the iterator of the next tool, which takes
\* the position of the erased one
NextIt(i, erased) == IF erased THEN i ELSE i + 1

PlugInit ==
    /\ PlugIdle /\ BeachIdle /\ VolIdle /\ RefIdle /\ MeshIdle /\ ToolIdle
    /\ FlowIdle /\ FnIdle

plugFrame ==
    <<volVars, refVars, meshVars, toolVars, beachVars, flowVars, fnVars>>

\* lines 675-678: measurementTools.setNext
SetNext ==
    /\ updIt = 0
    /\ \E name \in ToolNames : mNextTool' = name
    /\ pLast' = "setNext"
    /\ UNCHANGED <<mTools, created, updIt, toolsAtStart, updated>>
    /\ UNCHANGED plugFrame

\* lines 680-735: pButtons[0] changed
Click ==
    /\ updIt = 0
    /\ \E pressed \in BOOLEAN, gui \in BOOLEAN, hit \in Hovered :
          IF ~pressed /\ ~gui /\ hit = "body"
          THEN /\ IF mNextTool \in KnownTools /\ created < MaxTools
                  THEN /\ mTools' = Append(mTools, [id |-> created + 1,
                                                    kind |-> mNextTool,
                                                    del |-> FALSE])
                       /\ created' = created + 1
                  ELSE UNCHANGED <<mTools, created>>
               /\ mNextTool' = AfterClick(mNextTool)
               /\ pLast' = "releaseOnBody"
          ELSE /\ UNCHANGED <<mNextTool, mTools, created>>
               /\ pLast' = IF pressed THEN "press"
                           ELSE IF gui THEN "releaseOnGui"
                           ELSE "releaseOff"
    /\ UNCHANGED <<updIt, toolsAtStart, updated>>
    /\ UNCHANGED plugFrame

\* lines 737-740: sOnDoubleClick
DoubleClick ==
    /\ updIt = 0
    /\ mNextTool' = "none"
    /\ pLast' = "doubleClick"
    /\ UNCHANGED <<mTools, created, updIt, toolsAtStart, updated>>
    /\ UNCHANGED plugFrame

\* the deleteMe callback of a tool (PolygonTool.cpp lines 119-120)
DeleteMe ==
    /\ updIt = 0
    /\ \E k \in 1..Len(mTools) :
          /\ ~mTools[k].del
          /\ mTools' = [mTools EXCEPT ![k].del = TRUE]
    /\ pLast' = "deleteMe"
    /\ UNCHANGED <<mNextTool, created, updIt, toolsAtStart, updated>>
    /\ UNCHANGED plugFrame

\* Plugin::update, line 768: it = mTools.begin()
UpdateBegin ==
    /\ updIt = 0
    /\ updIt' = 1
    /\ toolsAtStart' = mTools
    /\ updated' = << >>
    /\ pLast' = "updating"
    /\ UNCHANGED <<mNextTool, mTools, created>>
    /\ UNCHANGED plugFrame

\* Plugin::update, lines 768-775: one iteration of the loop
UpdateVisit ==
    /\ updIt >= 1
    /\ updIt =< Len(mTools)
    /\ IF mTools[updIt].del
       THEN /\ mTools' = [k \in 1..(Len(mTools) - 1) |->
                             IF k < updIt THEN mTools[k] ELSE mTools[k + 1]]
            /\ UNCHANGED updated
       ELSE /\ updated' = Append(updated, mTools[updIt].id)
            /\ UNCHANGED mTools
    /\ updIt' = NextIt(updIt, mTools[updIt].del)
    /\ UNCHANGED <<mNextTool, created, toolsAtStart, pLast>>
    /\ UNCHANGED plugFrame

\* Plugin::update, line 768: it == mTools.end()
UpdateEnd ==
    /\ updIt >= 1
    /\ updIt > Len(mTools)
    /\ updIt' = 0
    /\ pLast' = "updated"
    /\ UNCHANGED <<mNextTool, mTools, created, toolsAtStart, updated>>
    /\ UNCHANGED plugFrame

PlugNext ==
    \/ SetNext \/ Click \/ DoubleClick \/ DeleteMe
    \/ UpdateBegin \/ UpdateVisit \/ UpdateEnd

SpecPlugin == PlugInit /\ [][PlugNext]_vars

-----------------------------------------------------------------------------
(* SpecHeights: the test of refineMesh on the midpoint of an edge, lines   *)
(* 660-668.  The heights are integers, (h1 + h2) / 2 and mHeightDiff are   *)
(* rationals; a division by zero gives an infinity or NaN as in IEEE       *)
(* arithmetic, with the zero taken as +0.                                  *)

MaxHeight == 2

\* the heights the oracle returns
Heights == (0 - MaxHeight)..MaxHeight

\* the settings of setHeightDiff (line 164), the default among them
HeightDiffs == {R(501, 500), R(3, 2), R(1, 2)}

\* a / b > hd in doubles: x / 0 is +inf for x > 0, -inf for x < 0, NaN
\* for x = 0; a comparison with NaN is false
QuotGt(a, b, hd) ==
    IF RZero(b) THEN a.n > 0
    ELSE RGt(RDiv(a, b), hd)

\* the test with one of its two quotients only
MidpointTestOneWay(hMid, avg, hd) == QuotGt(hMid, avg, hd)

\* refineMesh, line 665, with avg = (h1 + h2) / 2
MidpointTest(hMid, avg, hd) == QuotGt(hMid, avg, hd) \/ QuotGt(avg, hMid, hd)

HeightStart ==
    /\ hPc = "call"
    /\ h1 \in Heights
    /\ h2 \in Heights
    /\ hAvg \in Heights
    /\ mHeightDiff \in HeightDiffs
    /\ midInserted = FALSE

HeightInit ==
    /\ HeightStart /\ BoxIdle /\ VolIdle /\ RefIdle /\ MeshIdle /\ ToolIdle
    /\ BeachIdle /\ PlugIdle /\ FlowIdle

\* refineMesh, lines 665-668: the midpoint is emplaced if the test holds
RefineMeshMidpoint ==
    /\ hPc = "call"
    /\ midInserted' = MidpointTest(RInt(hAvg), R(h1 + h2, 2), mHeightDiff)
    /\ hPc' = "done"
    /\ UNCHANGED <<h1, h2, hAvg, mHeightDiff>>
    /\ UNCHANGED <<volVars, refVars, meshVars, toolVars, beachVars, plugVars,
                   flowVars, boxVars>>

HeightNext == RefineMeshMidpoint

SpecHeights == HeightInit /\ [][HeightNext]_vars

-----------------------------------------------------------------------------
(* SpecBox: the bounding box of updateLineVertices, lines 987-1022.  The   *)
(* longitudes and latitudes of the marks are integers.                     *)

MaxBoxMarks == 4
MaxLngLat == 1

LngLats == ((0 - MaxLngLat)..MaxLngLat) \X ((0 - MaxLngLat)..MaxLngLat)

MinD(a, b) == IF b < a THEN b ELSE a
MaxD(a, b) == IF a < b THEN b ELSE a

\* lines 1007-1010: the box of one segment
BoxOfSegment(l0, l1) ==
    <<MinD(l0[1], l1[1]), MaxD(l0[1], l1[1]),
      MinD(l0[2], l1[2]), MaxD(l0[2], l1[2])>>

\* lines 1012-1015: the box grows by one segment
BoxGrown(box, l0, l1) ==
    <<MinD(MinD(l0[1], l1[1]), box[1]), MaxD(MaxD(l0[1], l1[1]), box[2]),
      MinD(MinD(l0[2], l1[2]), box[3]), MaxD(MaxD(l0[2], l1[2]), box[4])>>

\* a box that is grown from the zero vector
BoxStepNoSentinel(box, l0, l1) == BoxGrown(box, l0, l1)

\* lines 1006-1016: the zero vector stands for a box not yet set
BoxStep(box, l0, l1) ==
    IF box = <<0, 0, 0, 0>> THEN BoxOfSegment(l0, l1)
    ELSE BoxGrown(box, l0, l1)

\* lines 983-987: at least two marks (line 959 returns otherwise)
BoxStart ==
    /\ bbPc = "loop"
    /\ lngLats \in UNION {[1..n -> LngLats] : n \in 2..MaxBoxMarks}
    /\ currMark = 2
    /\ boundingBox = <<0, 0, 0, 0>>
    /\ mBoundingBox = <<0, 0, 0, 0>>

BoxInit ==
    /\ BoxStart /\ HeightIdle /\ VolIdle /\ RefIdle /\ MeshIdle /\ ToolIdle
    /\ BeachIdle /\ PlugIdle /\ FlowIdle

\* lines 989-1020: one iteration of the while loop
BoxSegment ==
    /\ bbPc = "loop"
    /\ currMark =< Len(lngLats)
    /\ boundingBox' =
          BoxStep(boundingBox, lngLats[currMark - 1], lngLats[currMark])
    /\ currMark' = currMark + 1
    /\ UNCHANGED <<bbPc, lngLats, mBoundingBox>>
    /\ UNCHANGED <<volVars, refVars, meshVars, toolVars, beachVars, plugVars,
                   flowVars, heightVars>>

\* line 1022
BoxStore ==
    /\ bbPc = "loop"
    /\ currMark > Len(lngLats)
    /\ mBoundingBox' = boundingBox
    /\ bbPc' = "stored"
    /\ UNCHANGED <<lngLats, currMark, boundingBox>>
    /\ UNCHANGED <<volVars, refVars, meshVars, toolVars, beachVars, plugVars,
                   flowVars, heightVars>>

BoxNext == BoxSegment \/ BoxStore

SpecBox == BoxInit /\ [][BoxNext]_vars

-----------------------------------------------------------------------------
(* Properties of the integrator (SpecVol) *)

\* C6: every accumulation step of calculateAreaAndVolume leaves pvol
\* non-decreasing and non-negative and nvol non-increasing and non-positive,
\* whatever the signs of the three heights and whichever crossings the
\* sampling found (a NaN accumulator has no order and is left out).
C6_SignedVolumes ==
    [][ /\ ~IsNaN(posVolume') =>
             /\ ~IsNaN(posVolume)
             /\ posVolume'.v >= posVolume.v
             /\ posVolume'.v >= 0
        /\ ~IsNaN(negVolume') =>
             /\ ~IsNaN(negVolume)
             /\ negVolume'.v =< negVolume.v
             /\ negVolume'.v =< 0 ]_vars

\* a single triangle crossing the plane has fed both accumulators
C6_Witness ==
    cavIt = 1 /\ FGt(posVolume, F(0)) /\ FLt(negVolume, F(0))

\* C7 as stated: a sub-triangle with a NaN corner contributes zero and the
\* area of the other sub-triangles is what setArea receives.
C7_OthersRetained ==
    (volPc = "shown" /\ nanVertex) => guiArea = cleanArea

-----------------------------------------------------------------------------
(* Properties of the refinement loop (SpecRefine, SpecRefineLive) *)

\* C4: the refinement loop terminates, runs at most mMaxAttempt passes, and
\* starts a pass only if the previous one ended with fine = false and with
\* fewer than mMaxPoints points.
C4_LoopTerminates ==
    /\ <>(refPc = "done")
    /\ [](attempt =< mMaxAttempt)
    /\ [][attempt' # attempt =>
            /\ attempt' = attempt + 1
            /\ ~fine
            /\ pointCount < mMaxPoints]_vars

\* the loop ran every pass its attempts allow and ended below the point
\* budget, the last pass following one that refineMesh left not fine
C4_Witness ==
    /\ refPc = "done"
    /\ attempt = mMaxAttempt
    /\ attempt > 1
    /\ pointCount < mMaxPoints

\* C5 as stated: when the loop is left with attempts and points to spare,
\* the last pass added no site, neither in checkSleekness nor in refineMesh.
C5_LastPassAddedNothing ==
    (refPc = "done" /\ attempt < mMaxAttempt /\ pointCount < mMaxPoints)
        => (sleekAdded = 0 /\ refineAdded = 0)

-----------------------------------------------------------------------------
(* Properties of the edge-recovery loop (SpecMesh, SpecMeshLive) *)

\* C2: edgesOK is set only when the last sweep holds an edge for every pair
\* of cyclically neighbouring corner addresses of mCorners, and createMesh
\* returns either so or after MaxIterations iterations with the warning.
C2_EdgesRecovered ==
    /\ edgesOK => absent = {}
    /\ meshPc = "done" =>
          \/ edgesOK /\ absent = {} /\ ~warned
          \/ ~edgesOK /\ it = MaxIterations /\ warned

\* createMesh returned from a quadrilateral with all four edges in the sweep
C2_Witness ==
    meshPc = "done" /\ edgesOK /\ absent = {} /\ Len(mCorners) = 4

\* C3: the edge-recovery loop terminates, sweeps at most MaxIterations
\* times, and stops before that exactly when an iteration found all edges.
C3_LoopTerminates ==
    /\ <>(meshPc = "done")
    /\ [](it =< MaxIterations)
    /\ []((meshPc = "done" /\ it < MaxIterations) => edgesOK)
    /\ []((meshPc = "done") => it >= 1)
    /\ [][it' # it => (it' = it + 1 /\ ~edgesOK)]_vars

\* all iterations were used up without recovering the edges, the last one
\* accepted no intersection
C3_Witness ==
    meshPc = "done" /\ it = MaxIterations /\ ~edgesOK /\ warned /\ ~spliced

-----------------------------------------------------------------------------
(* Properties of the event handlers (Spec) *)

\* the step is an event whose handler called updateCalculation
Invoked ==
    /\ mPoints' # mPoints \/ pHeightScale' # pHeightScale
    /\ ran' # "skipped"

\* C1: when updateCalculation runs on three or more marks of which one is
\* farther from their centroid than the body radius, it reports area 0 and
\* volumes (0, 0), switches the mesh display off and returns in front of the
\* projection: mCorners and mCornersFine are left empty.
C1_TooLargeReportsZero ==
    [][ ( /\ Invoked
          /\ Len(mPoints') >= 3
          /\ LargestDistSq(mPoints') >
                 Radius * Radius * Len(mPoints') * Len(mPoints') )
        => ( /\ ran' = "tooLarge"
             /\ guiArea' = F(0)
             /\ guiVolume' = <<F(0), F(0)>>
             /\ mShowMesh' = FALSE
             /\ mCorners' = << >>
             /\ mCornersFine' = << >> ) ]_vars

\* a polygon that is too large was reported after the area of another
\* polygon had been computed
C1_Witness ==
    /\ ran = "tooLarge"
    /\ Len(mPoints) = 3
    /\ LargestDistSq(mPoints) > Radius * Radius * 9
    /\ guiArea = F(0)
    /\ ~mShowMesh
    /\ mCorners = << >>
    /\ mIndexCount2 > 0

\* C8: after updateCalculation ran on fewer than 3 marks, the displayed area
\* is 0 and the displayed volumes are (0, 0), also when a polygon of 3 marks
\* was displayed before.
C8_FewCornersReportZero ==
    (Len(mPoints) < 3 /\ ran = "short" /\ guiArea # NotShown)
        => (guiArea = F(0) /\ guiVolume = <<F(0), F(0)>>)

\* C9: an event (point moved, added, removed, height scale changed) that
\* finds a mark with a NaN or zero-length position changes none of the
\* sampled line, mCorners, mCornersFine, mTriangulation and the displayed
\* area and volumes.
C9_OffPlanetSkipsUpdate ==
    [][ ( /\ mPoints' # mPoints \/ pHeightScale' # pHeightScale
          /\ AnyOffPlanet(mPoints') )
        => UNCHANGED <<mSampledPositions, mCorners, mCornersFine,
                       mTriangulation, guiArea, guiVolume>> ]_vars

\* C10: the outputs of updateCalculation are a function of its inputs. An
\* invocation on the marks and the height scale of the invocation before it
\* leaves the displayed area, the displayed volumes and mTriangulation as
\* that invocation left them, and an invocation on fewer than 3 marks leaves
\* the empty mTriangulation that it leaves on a new tool, whatever an
\* earlier invocation on other marks had written.
C10_SameInputsSameOutputs ==
    /\ [][ ( /\ Invoked
              /\ mPoints' = lastRun
              /\ pHeightScale' = pHeightScale )
            => ( /\ guiArea' = guiArea
                 /\ guiVolume' = guiVolume
                 /\ mTriangulation' = mTriangulation ) ]_vars
    /\ [](ran = "short" => mTriangulation = << >>)

\* C11: the corners updateCalculation hands to createMesh, the sites of the
\* first sweep, are pairwise distinct in (x, y), whichever marks of the
\* polygon coincide.
C11_SitesDistinct ==
    ran = "full" =>
        \A i, j \in 1..Len(mCorners) :
            i < j => ~SamePoint(mCorners[i], mCorners[j])

\* C17: between any two events, where PolygonTool::Do() can be called,
\* mIndexCount2 is at most the size of mTriangulation, so that the loop of
\* Do() over mTriangulation[0 .. mIndexCount2 - 1] stays inside the vector.
C17_IndexCountInBounds ==
    mIndexCount2 =< Len(mTriangulation)

\* C14: whatever values the settings were given through setMaxAttempt and
\* setMaxPoints, the refinement loop of updateCalculation is not left before
\* a pass has run and displayed its area and volumes.
C14_ResultReported ==
    (refPc = "done" /\ Len(inside) >= 1 /\ inside[1]) => attempt >= 1

-----------------------------------------------------------------------------
(* Properties of the splice in createMesh (SpecMesh) *)

-----------------------------------------------------------------------------
(* Properties of the beach line (SpecBeach) *)

\* the step inserts the next site of the queue
SiteStep == Len(mSiteEvents') < Len(mSiteEvents)

\* C13: once two or more distinct sites have been inserted through
\* insertArcFor, every inserted site, the site of the root arc included, is
\* an endpoint of an edge passed to addTriangulationEdge.
C13_EverySiteHasEdge ==
    Len(bArcs) >= 2 =>
        \A a \in 1..Len(bArcs) :
            \E k \in 1..Len(mTriangulationEdges) :
                \/ mTriangulationEdges[k][1] = bArcs[a].site
                \/ mTriangulationEdges[k][2] = bArcs[a].site

\* all sites of a sweep over MaxBeachSites sites are inserted and the site
\* of the root arc is an endpoint of an edge
C13_Witness ==
    /\ mSiteEvents = << >>
    /\ Cardinality({bArcs[a].site : a \in 1..Len(bArcs)}) = MaxBeachSites
    /\ mRoot = 1
    /\ \E k \in 1..Len(mTriangulationEdges) :
          mTriangulationEdges[k][1] = bArcs[mRoot].site

\* C20: insertArcFor on an empty beach line makes the site the root and
\* creates no edge and no breakpoint; otherwise it invalidates and detaches
\* the circle event of the arc A it breaks, emits the one edge
\* (A.site, site), and puts one breakpoint (site at the height of A.site)
\* or two breakpoints and a second arc with the focus of A (else) into the
\* index.
C20_InsertArcFor ==
    [][ SiteStep =>
        LET s == Head(mSiteEvents)
            A == bArc'
        IN  IF mRoot = 0
            THEN /\ mRoot' = Len(bArcs) + 1
                 /\ Len(bArcs') = Len(bArcs) + 1
                 /\ bArcs'[mRoot'].site = s
                 /\ mTriangulationEdges' = mTriangulationEdges
                 /\ bBreaks' = bBreaks
                 /\ bIndex' = bIndex
            ELSE /\ bArcs'[A].ev = 0
                 /\ bArcs[A].ev # 0 => ~bCircles'[bArcs[A].ev].valid
                 /\ mTriangulationEdges' =
                        Append(mTriangulationEdges, <<bArcs[A].site, s>>)
                 /\ bIndex \subseteq bIndex'
                 /\ IF s.y = bArcs[A].site.y
                    THEN /\ Cardinality(bIndex' \ bIndex) = 1
                         /\ Len(bArcs') = Len(bArcs) + 1
                    ELSE /\ Cardinality(bIndex' \ bIndex) = 2
                         /\ Len(bArcs') = Len(bArcs) + 2
                         /\ bArcs'[Len(bArcs')].site = bArcs[A].site
                         /\ bArcs'[A].site = bArcs[A].site
                         /\ bArcs'[Len(bArcs) + 1].site = s ]_vars

\* a site was inserted into an arc that had a pending circle event: the
\* arc was split and its event is invalid
C20_Witness ==
    /\ bOp = "split"
    /\ bArc # 0
    /\ bArcs[bArc].ev = 0
    /\ \E e \in 1..Len(bCircles) :
          bCircles[e].arc = bArc /\ ~bCircles[e].valid
    /\ Cardinality(bIndex) >= 4

-----------------------------------------------------------------------------
(* Properties of the plugin (SpecPlugin) *)

\* C15: a release of the left button over a celestial body, with no GUI
\* item hovered, appends at most one tool, of the selected kind, and none
\* for "none" or an unknown name, and leaves mNextTool = "none"; a press, a
\* release over a GUI item, over nothing or over another object changes
\* neither mNextTool nor mTools; a double click sets mNextTool to "none" and
\* creates nothing; setNext creates nothing.
C15_SelectionOneShot ==
    [][ /\ pLast' = "releaseOnBody" =>
              /\ mNextTool' = "none"
              /\ IF mNextTool \in KnownTools /\ created < MaxTools
                 THEN /\ Len(mTools') = Len(mTools) + 1
                      /\ SubSeq(mTools', 1, Len(mTools)) = mTools
                      /\ mTools'[Len(mTools')].kind = mNextTool
                 ELSE mTools' = mTools
        /\ pLast' \in {"press", "releaseOnGui", "releaseOff"} =>
              mNextTool' = mNextTool /\ mTools' = mTools
        /\ pLast' = "doubleClick" =>
              mNextTool' = "none" /\ mTools' = mTools
        /\ pLast' = "setNext" => mTools' = mTools ]_vars

\* a polygon tool was created by a release on a body, a second release on
\* a body created nothing
C15_Witness ==
    /\ pLast = "releaseOnBody"
    /\ mNextTool = "none"
    /\ Len(mTools) = 2
    /\ mTools[1].kind = "Polygon"
    /\ mTools[2].kind = "Path"
    /\ created = 2

\* C16: when Plugin::update has returned, update() was called exactly once
\* on every tool that was registered without pShouldDelete, in the order of
\* the list, on no tool with pShouldDelete, and mTools holds the tools
\* without pShouldDelete in their old order.
C16_UpdateVisitsOnce ==
    pLast = "updated" =>
        LET kept == SelectSeq(toolsAtStart, LAMBDA t : ~t.del)
        IN  /\ mTools = kept
            /\ updated = [k \in 1..Len(kept) |-> kept[k].id]

\* update ran over three tools of which the first was to be deleted
C16_Witness ==
    /\ pLast = "updated"
    /\ Len(toolsAtStart) = 3
    /\ toolsAtStart[1].del
    /\ Len(mTools) = 2
    /\ updated = <<2, 3>>

-----------------------------------------------------------------------------
(* Properties of the insertion and the splice in createMesh (SpecMeshFlow) *)

\* C18: when createMesh has returned, the last iteration of its loop did
\* not splice corners into mCorners: after every splice the sweep runs
\* again on the updated corners, so that the triangles handed back are
\* those of the final mCorners, also for a splice in the 5th iteration.
C18_SweepAfterSplice == meshPc = "done" => ~spliced

\* the distance in x of the k-th entry of addCorners from the first end
\* point of its polygon edge
AlongEdge(k) ==
    RAbs(RSub(addCorners[k].x, cornersBefore[addCorners[k].a].x))

\* C19: after an iteration of createMesh, addCorners holds every confirmed
\* intersection exactly once and nothing else; its entries are in
\* non-decreasing order of their address and, for equal addresses, in the
\* order of their distance from the first end point of the polygon edge;
\* in mCorners after the splice the corners of before keep their order and
\* every intersection of the polygon edge i stands behind the corner i and
\* in front of the corner that followed it.
C19_InsertionAndSplice ==
    it >= 1 =>
      /\ Len(addCorners) = Len(hits)
      /\ \A k \in 1..Len(hits) :
            Cardinality({l \in 1..Len(addCorners) :
                addCorners[l] = Site(hits[k].x, hits[k].y, hits[k].i + 1)}) = 1
      /\ \A k, l \in 1..Len(addCorners) :
            k < l => /\ addCorners[k].a =< addCorners[l].a
                     /\ addCorners[k].a = addCorners[l].a
                          => RLt(AlongEdge(k), AlongEdge(l))
      /\ Len(mCorners) = Len(cornersBefore) + Len(addCorners)
      /\ \A k \in 1..Len(addCorners) :
            SamePoint(mCorners[addCorners[k].a + k], addCorners[k])
      /\ \A j \in 1..Len(cornersBefore) :
            SamePoint(mCorners[j + Cardinality({k \in 1..Len(addCorners) :
                                                  addCorners[k].a < j})],
                      cornersBefore[j])

\* two intersections of one polygon edge were confirmed, the farther one
\* first, and the nearer one was inserted in front of it
C19_Witness ==
    /\ spliced
    /\ Len(hits) = 2
    /\ hits[1].i = hits[2].i
    /\ Len(addCorners) = 2
    /\ SamePoint(addCorners[1], hits[2])
    /\ SamePoint(addCorners[2], hits[1])

-----------------------------------------------------------------------------
(* Properties of Beachline under any sequence of operations (SpecBeachOps) *)

\* the step is a removeArc that returned
RemoveOps == {"merge", "dropLeft", "dropRight", "dropNone"}

\* the arc to the left and to the right of the arc a, 0 if there is none
LeftOf(a) == IF bArcs[a].lb # 0 THEN bBreaks[bArcs[a].lb].l ELSE 0
RightOf(a) == IF bArcs[a].rb # 0 THEN bBreaks[bArcs[a].rb].r ELSE 0

\* C21: removeArc(arc) leaves arc and its neighbours L and R without an
\* event and the events they had invalid.  With both neighbours it emits
\* the one edge (L.site, R.site), takes the two breakpoints of arc out of
\* the index and puts in one new breakpoint (L, R) that is the right
\* breakpoint of L and the left breakpoint of R.  With one neighbour it
\* takes the one breakpoint of arc out of the index, sets the link of the
\* neighbour to NULL and emits no edge.
C21_RemoveArc ==
    [][bOp' \in RemoveOps =>
        LET arc == bArc'
            lb == bArcs[arc].lb
            rb == bArcs[arc].rb
            leftArc == LeftOf(arc)
            rightArc == RightOf(arc)
            m == Len(bBreaks) + 1
        IN  /\ \A a \in {arc, leftArc, rightArc} \ {0} :
                  /\ bArcs'[a].ev = 0
                  /\ bArcs[a].ev # 0 => ~bCircles'[bArcs[a].ev].valid
            /\ (leftArc # 0 /\ rightArc # 0) =>
                  /\ mTriangulationEdges' =
                        Append(mTriangulationEdges,
                               <<bArcs[leftArc].site, bArcs[rightArc].site>>)
                  /\ bIndex' = (bIndex \ {lb, rb}) \cup {m}
                  /\ Len(bBreaks') = m
                  /\ bBreaks'[m].l = leftArc /\ bBreaks'[m].r = rightArc
                  /\ bArcs'[leftArc].rb = m /\ bArcs'[rightArc].lb = m
            /\ (leftArc # 0 /\ rightArc = 0) =>
                  /\ bIndex' = bIndex \ {lb}
                  /\ bArcs'[leftArc].rb = 0
                  /\ UNCHANGED mTriangulationEdges
            /\ (leftArc = 0 /\ rightArc # 0) =>
                  /\ bIndex' = bIndex \ {rb}
                  /\ bArcs'[rightArc].lb = 0
                  /\ UNCHANGED mTriangulationEdges]_vars

\* an arc between two arcs was removed; a neighbour had a circle event,
\* which is invalid now
C21_Witness ==
    /\ bOp = "merge"
    /\ Len(bBreaks) >= 1
    /\ bBreaks[Len(bBreaks)].l # bBreaks[Len(bBreaks)].r
    /\ Len(bBreaks) \in bIndex
    /\ \E e \in 1..Len(bCircles) :
          /\ ~bCircles[e].valid
          /\ bCircles[e].arc \in {bBreaks[Len(bBreaks)].l,
                                   bBreaks[Len(bBreaks)].r}

\* Arc::invalidateEvent on the arc a in the current state: the event it had
\* is invalid and detached, an arc without event changes nothing, and a
\* second call changes nothing
InvalidateOnce(a) ==
    LET c1 == InvalidateEvent(bCircles, bArcs, a)
        a1 == DetachEvent(bArcs, a)
    IN  /\ bArcs[a].ev = 0 => (c1 = bCircles /\ a1 = bArcs)
        /\ bArcs[a].ev # 0 => (~c1[bArcs[a].ev].valid /\ a1[a].ev = 0)
        /\ \A e \in 1..Len(bCircles) :
              e # bArcs[a].ev => c1[e] = bCircles[e]
        /\ InvalidateEvent(c1, a1, a) = c1
        /\ DetachEvent(a1, a) = a1

\* C22: every arc has at most one valid circle event, and that one is the
\* event its mEvent points to; invalidateEvent marks the event of the arc
\* invalid and sets mEvent to NULL, does nothing on an arc without event
\* and nothing when called again; no operation of the beach line makes an
\* invalid event valid.
C22_EventsInvalidated ==
    /\ [](\A a \in 1..Len(bArcs) :
            /\ Cardinality({e \in 1..Len(bCircles) :
                    bCircles[e].valid /\ bCircles[e].arc = a}) =< 1
            /\ \A e \in 1..Len(bCircles) :
                  (bCircles[e].valid /\ bCircles[e].arc = a)
                      => bArcs[a].ev = e
            /\ InvalidateOnce(a))
    /\ [][\A e \in 1..Len(bCircles) :
             ~bCircles[e].valid => ~bCircles'[e].valid]_vars

\* an arc lost its event to invalidateEvent and has a second, valid one
C22_Witness ==
    \E e1, e2 \in 1..Len(bCircles) :
        /\ e1 # e2
        /\ bCircles[e1].arc = bCircles[e2].arc
        /\ ~bCircles[e1].valid
        /\ bCircles[e2].valid
        /\ bArcs[bCircles[e2].arc].ev = e2

\* C23: no two breakpoints of the index have the same left arc and the
\* same right arc.
C23_PairsDistinct ==
    \A b1, b2 \in bIndex :
        (bBreaks[b1].l = bBreaks[b2].l /\ bBreaks[b1].r = bBreaks[b2].r)
            => b1 = b2

\* arcs were inserted and one was removed between two others; the index
\* holds the merged breakpoint and others, among them two of the same
\* pair of sites in the two orders
C23_Witness ==
    /\ bOp = "merge"
    /\ Cardinality(bIndex) >= 3
    /\ \E b1, b2 \in bIndex :
          /\ b1 # b2
          /\ bArcs[bBreaks[b1].l].site = bArcs[bBreaks[b2].r].site
          /\ bArcs[bBreaks[b1].r].site = bArcs[bBreaks[b2].l].site

\* the arcs that have not been deleted
LiveArcs == {a \in 1..Len(bArcs) : bArcs[a].live}

-----------------------------------------------------------------------------
(* Properties of the refinement pass (SpecRefine)                          *)

\* C26: a triangle receives sites from refineMesh only if checkSleekness
\* did not report too many added points for it, the point count of the
\* pass in front of the triangle is below mMaxPoints and attempt is below
\* mMaxAttempt; in the pass with attempt = mMaxAttempt refineMesh adds no
\* site to any triangle.
C26_RefineGated ==
    /\ [][refineAdded' > refineAdded =>
            /\ ~TooManyAdded(sleekAdded' - sleekAdded,
                             Len(mCornersFine'[triangleCount'])
                               - (refineAdded' - refineAdded))
            /\ pointCount < mMaxPoints
            /\ attempt < mMaxAttempt]_vars
    /\ []((refPc = "pass" /\ attempt = mMaxAttempt) => refineAdded = 0)

\* the last pass is under way: a triangle that refineMesh gave a site in
\* an earlier pass was handled again and refineMesh added nothing
C26_Witness ==
    /\ refPc = "pass"
    /\ attempt = mMaxAttempt
    /\ attempt >= 2
    /\ triangleCount >= 1
    /\ Len(mCornersFine[1]) >= 5
    /\ sleekAdded = 0
    /\ refineAdded = 0


\* the triangles of the mesh in front of position k that pass checkPoint
InsideBefore(k) ==
    Cardinality({j \in 1..(k - 1) : j =< Len(inside) /\ inside[j]})

\* C28: in every pass triangleCount is the number of triangles in front
\* of the current one that pass checkPoint, the same in every pass; in
\* pass 1 the list of the current triangle is the one just seeded, in the
\* later passes mCornersFine has one list per triangle that passes
\* checkPoint, so that mCornersFine[triangleCount] exists and belongs to
\* the current triangle; every site of a list has its index as mAddr.
C28_FineListsAligned ==
    /\ refPc = "pass" => triangleCount = InsideBefore(triIx)
    /\ (refPc = "pass" /\ attempt = 1) => Len(mCornersFine) = triangleCount
    /\ (attempt >= 2 \/ (attempt = 1 /\ refPc # "pass")) =>
          Len(mCornersFine) = InsideBefore(Len(inside) + 1)
    /\ (refPc = "pass" /\ attempt >= 2 /\ triIx =< Len(inside)
          /\ inside[triIx]) => triangleCount + 1 =< Len(mCornersFine)
    /\ \A t \in 1..Len(mCornersFine) :
          \A j \in 1..Len(mCornersFine[t]) : mCornersFine[t][j] = j - 1

\* in a later pass the second of two interior triangles is reached; both
\* lists have received sites behind their seed
C28_Witness ==
    /\ refPc = "pass"
    /\ attempt >= 2
    /\ inside = <<TRUE, TRUE>>
    /\ triIx = 2
    /\ triangleCount = 1
    /\ Len(mCornersFine) = 2
    /\ Len(mCornersFine[1]) >= 5
    /\ Len(mCornersFine[2]) >= 5

-----------------------------------------------------------------------------
(* Properties of the midpoint test of refineMesh (SpecHeights)             *)

\* max(a, b) / min(a, b) > hd in doubles
MaxMinExceeds(a, b, hd) ==
    IF RGt(a, b) THEN QuotGt(a, b, hd) ELSE QuotGt(b, a, hd)

\* the absolute value of a height or mean height
Magnitude(a) == RAbs(a)

\* C27: refineMesh inserts the midpoint of the edge exactly when
\* max(hAvg, (h1 + h2) / 2) / min(hAvg, (h1 + h2) / 2) > mHeightDiff, for
\* all heights, negative and zero ones included.
C27_MidpointRule ==
    hPc = "done" =>
        (midInserted <=>
            MaxMinExceeds(RInt(hAvg), R(h1 + h2, 2), mHeightDiff))

\* C27, holding: refineMesh inserts the midpoint exactly when the quotient
\* of the larger by the smaller of hAvg and (h1 + h2) / 2 exceeds
\* mHeightDiff, where for two negative heights the magnitudes are
\* compared.
C27_MidpointRuleBySign ==
    hPc = "done" =>
        LET avg == R(h1 + h2, 2)
            mid == RInt(hAvg)
        IN  midInserted <=>
              IF mid.n < 0 /\ avg.n < 0
              THEN MaxMinExceeds(Magnitude(mid), Magnitude(avg), mHeightDiff)
              ELSE MaxMinExceeds(mid, avg, mHeightDiff)

\* the test was made for two negative heights of which the lower is more
\* than mHeightDiff times the other, and the midpoint was inserted
C27_Witness ==
    /\ hPc = "done"
    /\ hAvg = 0 - 2
    /\ h1 = 0 - 1
    /\ h2 = 0 - 1
    /\ mHeightDiff = R(3, 2)
    /\ midInserted

-----------------------------------------------------------------------------
(* Properties of the bounding box (SpecBox)                                *)

\* C29: after updateLineVertices with at least two marks mBoundingBox is
\* (min lng, max lng, min lat, max lat) over all marks, also when marks
\* lie at longitude or latitude 0.
C29_BoundingBox ==
    bbPc = "stored" =>
        LET lngs == {lngLats[k][1] : k \in 1..Len(lngLats)}
            lats == {lngLats[k][2] : k \in 1..Len(lngLats)}
        IN  mBoundingBox = <<MinOf(lngs), MaxOf(lngs), MinOf(lats), MaxOf(lats)>>

\* the first two marks lie at (0, 0), so that the box is the zero vector
\* after the first segment; the other marks lie elsewhere
C29_Witness ==
    /\ bbPc = "stored"
    /\ Len(lngLats) = 4
    /\ lngLats[1] = <<0, 0>>
    /\ lngLats[2] = <<0, 0>>
    /\ lngLats[3] = <<1, 1>>
    /\ lngLats[4] = <<0 - 1, 0 - 1>>
    /\ mBoundingBox = <<0 - 1, 1, 0 - 1, 1>>

=============================================================================
